---- MODULE Spec2Model ----
(***************************************************************************)
(* Exam Question Explanation Engine of locbh07/vocab-backend.              *)
(*                                                                         *)
(* Two specifications share this module.                                   *)
(*   Spec    the /question-explanation and /passage-explanation handlers   *)
(*           of routes/exam.ts as concurrent requests, one step per await, *)
(*           over the explanation tables, the request-log (quota) tables   *)
(*           and the reading cache.                                        *)
(*   SpecSO  one sentence_order generation, from the model's replies to    *)
(*           the explanation that is cached and served again.              *)
(*                                                                         *)
(* Text is a sequence of one-character strings.  Stand-ins for characters  *)
(* outside ASCII: "," is the ideographic comma U+3001, "*" is the star     *)
(* U+2605, "_" is the blank underline U+FF3F.                              *)
(***************************************************************************)
EXTENDS Integers, Sequences, FiniteSets, TLC

None == [none |-> TRUE]
Error == [error |-> TRUE]

-----------------------------------------------------------------------------
(* Text helpers: the regular expressions of the source, computed on        *)
(* sequences of characters.                                                *)

WsChars == {" ", "\n"}
DigitChars == {"0", "1", "2", "3", "4", "5", "6", "7", "8", "9"}
\* [.)．。､、:：\-－ー] of sanitizeOptionText
PrefixPunct == {".", ")", ",", ":", "-"}

RECURSIVE SkipWhile(_, _)
\* the suffix of s left after its longest prefix of characters in cs
SkipWhile(s, cs) ==
    IF s # <<>> /\ Head(s) \in cs THEN SkipWhile(Tail(s), cs) ELSE s

RECURSIVE Reverse(_)
Reverse(s) == IF s = <<>> THEN <<>> ELSE Append(Reverse(Tail(s)), Head(s))

\* String.prototype.trim
Trim(s) == Reverse(SkipWhile(Reverse(SkipWhile(s, WsChars)), WsChars))

IsPrefix(p, s) == Len(p) <= Len(s) /\ SubSeq(s, 1, Len(p)) = p

Drop(s, n) == SubSeq(s, n + 1, Len(s))

\* String.prototype.indexOf(p, from), 0-based, -1 when absent
IndexOfFrom(s, p, from) ==
    LET start == IF from < 0 THEN 0 ELSE from
        hits == {i \in start..(Len(s) - Len(p)) : SubSeq(s, i + 1, i + Len(p)) = p}
    IN IF hits = {} THEN -1 ELSE CHOOSE i \in hits : \A j \in hits : i <= j

IndexOf(s, p) == IndexOfFrom(s, p, 0)

Includes(s, p) == IndexOf(s, p) >= 0

RECURSIVE Concat(_)
\* Array.prototype.join('') of a sequence of texts
Concat(ss) == IF ss = <<>> THEN <<>> ELSE Head(ss) \o Concat(Tail(ss))

RECURSIVE CollapseWs(_)
\* line.replace(/\s+/g, ' ')
CollapseWs(s) ==
    IF s = <<>> THEN <<>>
    ELSE IF Head(s) \in WsChars
         THEN <<" ">> \o CollapseWs(SkipWhile(s, WsChars))
         ELSE <<Head(s)>> \o CollapseWs(Tail(s))

RECURSIVE SplitLines(_, _)
\* input.split('\n'), cur is the line being read
SplitLines(s, cur) ==
    IF s = <<>> THEN <<cur>>
    ELSE IF Head(s) = "\n" THEN <<cur>> \o SplitLines(Tail(s), <<>>)
         ELSE SplitLines(Tail(s), Append(cur, Head(s)))

RECURSIVE JoinLines(_)
JoinLines(ls) ==
    IF ls = <<>> THEN <<>>
    ELSE IF Len(ls) = 1 THEN Head(ls)
         ELSE Head(ls) \o <<"\n">> \o JoinLines(Tail(ls))

\* the lines trimmed and collapsed, the empty ones dropped
CleanLines(ls) ==
    SelectSeq([i \in 1..Len(ls) |-> Trim(CollapseWs(ls[i]))], LAMBDA l : l # <<>>)

\* stripHtml: the texts of the model hold one kind of markup, the token
\* "<br>", which becomes a line break; they hold no other tag or entity.
stripHtml(s) == [i \in 1..Len(s) |-> IF s[i] = "<br>" THEN "\n" ELSE s[i]]

normalizeSpace(s) == JoinLines(CleanLines(SplitLines(s, <<>>)))

\* /^[\s　]*[0-9０-９]+[\s　]*[.)．。､、:：\-－ー]?\s*/u replaced by ''
StripNumberPrefix(s) ==
    LET a == SkipWhile(s, WsChars)
        b == SkipWhile(a, DigitChars)
        c == SkipWhile(b, WsChars)
        d == IF c # <<>> /\ Head(c) \in PrefixPunct THEN Tail(c) ELSE c
    IN IF a = b THEN s ELSE SkipWhile(d, WsChars)

\* new RegExp(`^[\\s\\u3000]*${escapedKey}[\\s\\u3000]*[.)...]?\\s*`, 'u') replaced by ''
StripKeyPrefix(key, s) ==
    LET a == SkipWhile(s, WsChars)
        b == IF IsPrefix(key, a) THEN Drop(a, Len(key)) ELSE a
        c == SkipWhile(b, WsChars)
        d == IF c # <<>> /\ Head(c) \in PrefixPunct THEN Tail(c) ELSE c
    IN IF ~IsPrefix(key, a) THEN s ELSE SkipWhile(d, WsChars)


sanitizeOptionText(optionKey, input) ==
    Trim(StripKeyPrefix(Trim(<<optionKey>>),
                        StripNumberPrefix(normalizeSpace(stripHtml(input)))))

-----------------------------------------------------------------------------
(* Option keys.  The exam's option keys are "1".."4"; a key proposed by    *)
(* the model is any of RawKeys.                                            *)

\* "F2" is the full-width digit 2, "x3" a text holding the digit 3 ("option 3"),
\* "5" a digit outside [1-4], "" a missing or blank value
RawKeys == {"", "1", "2", "3", "4", "F2", "x3", "5"}

normalizeOptionKey(value) ==
    CASE value = "F2" -> "2"
      [] value = "x3" -> "3"
      [] OTHER -> value

\* Number(key)
KeyNum(k) ==
    CASE k = "1" -> 1 [] k = "2" -> 2 [] k = "3" -> 3 [] k = "4" -> 4
      [] k = "5" -> 5 [] OTHER -> 0

RECURSIVE SortKeys(_)
\* the keys of a set in ascending numeric order (sortOptionKey; also the
\* order in which Object.keys lists integer-like keys)
SortKeys(S) ==
    IF S = {} THEN <<>>
    ELSE LET m == CHOOSE k \in S : \A j \in S : KeyNum(k) <= KeyNum(j)
         IN <<m>> \o SortKeys(S \ {m})

Range(f) == {f[i] : i \in DOMAIN f}

RECURSIVE Dedup(_, _)
\* the first occurrence of every element of vs that is absent from seen
Dedup(vs, seen) ==
    IF vs = <<>> THEN <<>>
    ELSE IF Head(vs) \in seen THEN Dedup(Tail(vs), seen)
         ELSE <<Head(vs)>> \o Dedup(Tail(vs), seen \cup {Head(vs)})

\* text(value): the trimmed string, '' standing for null
text(value) == Trim(value)

\* value || fallback
Or(value, fallback) == IF value # <<>> THEN value ELSE fallback

\* toRubyHtml / toReadingHiragana of the Reading Annotator: the empty text
\* gives the empty text, any other text a marked copy of it
toRubyHtml(t) == IF t = <<>> THEN <<>> ELSE <<"<ruby>">> \o t
toReadingHiragana(t) == IF t = <<>> THEN <<>> ELSE <<"<hira>">> \o t

-----------------------------------------------------------------------------
(* lib/examExplanation.ts: normalisation and sentence-order repair.        *)

uniqueOptions(values, allowKeys) ==
    LET norm == [i \in 1..Len(values) |-> normalizeOptionKey(values[i])]
        kept == SelectSeq(norm, LAMBDA o : o # "" /\ o \in Range(allowKeys))
    IN Dedup(kept, {})

RECURSIVE InsertKey(_, _)
InsertKey(sorted, k) ==
    IF sorted = <<>> THEN <<k>>
    ELSE IF KeyNum(k) < KeyNum(Head(sorted)) THEN <<k>> \o sorted
         ELSE <<Head(sorted)>> \o InsertKey(Tail(sorted), k)

RECURSIVE SortKeySeq(_)
\* [...keys].sort(sortOptionKey), duplicates kept
SortKeySeq(ks) == IF ks = <<>> THEN <<>> ELSE InsertKey(SortKeySeq(Tail(ks)), Head(ks))

hasCompleteOrder(orderedOptions, optionKeys) ==
    /\ Len(orderedOptions) = Len(optionKeys)
    /\ SortKeySeq(orderedOptions) = SortKeySeq(optionKeys)

\* the options found in the sentence, by position, the longer text first
RECURSIVE SortHits(_)
SortHits(H) ==
    IF H = {} THEN <<>>
    ELSE LET m == CHOOSE h \in H : \A g \in H :
                     \/ h.index < g.index
                     \/ h.index = g.index /\ h.length > g.length
                     \/ h.index = g.index /\ h.length = g.length /\ h.pos <= g.pos
         IN <<m.option>> \o SortHits(H \ {m})

inferOptionOrderFromSentence(sentence, options) ==
    LET keys == SortKeys(DOMAIN options)
        hits == {[option |-> normalizeOptionKey(keys[i]),
                  index |-> IF options[keys[i]] # <<>>
                            THEN IndexOf(sentence, options[keys[i]]) ELSE -1,
                  length |-> Len(options[keys[i]]),
                  pos |-> i] : i \in 1..Len(keys)}
    IN IF sentence = <<>> THEN <<>>
       ELSE SortHits({h \in hits : h.option # "" /\ h.index >= 0})

isSentenceContainsAllOptionTexts(sentence, orderedOptions, options) ==
    /\ sentence # <<>>
    /\ orderedOptions # <<>>
    /\ \A i \in 1..Len(orderedOptions) :
          LET o == orderedOptions[i]
              t == IF o \in DOMAIN options THEN options[o] ELSE <<>>
          IN t # <<>> /\ Includes(sentence, t)

RECURSIVE OrderScan(_, _, _, _)
\* the loop of isSentenceOptionOrderConsistent from option i with the cursor
OrderScan(sentence, orderedOptions, options, st) ==
    IF st.i > Len(orderedOptions) THEN TRUE
    ELSE LET o == orderedOptions[st.i]
             t == IF o \in DOMAIN options THEN options[o] ELSE <<>>
             index == IndexOfFrom(sentence, t, st.cursor + 1)
         IN IF t = <<>> \/ index < 0 \/ index < st.cursor THEN FALSE
            ELSE OrderScan(sentence, orderedOptions, options,
                           [i |-> st.i + 1, cursor |-> index])

isSentenceOptionOrderConsistent(sentence, orderedOptions, options) ==
    /\ sentence # <<>>
    /\ orderedOptions # <<>>
    /\ OrderScan(sentence, orderedOptions, options, [i |-> 1, cursor |-> -1])

\* normalizeWhitespaceLine
normalizeWhitespaceLine(input) == Trim(CollapseWs(input))

\* [＿_ー－\-〜～]
BlankChars == {"_", "-"}
StarChar == "*"

RECURSIVE ClusterStart(_, _)
\* where the match of (?:[blanks]+\s*)* that ends just before position p starts
\* (positions are 1-based indexes of s; p is the index of the star)
ClusterStart(s, p) ==
    LET RECURSIVE Back(_, _)
        Back(i, cs) == IF i >= 1 /\ s[i] \in cs THEN Back(i - 1, cs) ELSE i
        w == Back(p - 1, WsChars)
        b == Back(w, BlankChars)
    IN IF b = w THEN p ELSE ClusterStart(s, b + 1)

RECURSIVE ClusterEnd(_, _)
\* the index of the last character of the match of (?:\s*[blanks]+)* that
\* starts just after position p
ClusterEnd(s, p) ==
    LET RECURSIVE Fwd(_, _)
        Fwd(i, cs) == IF i <= Len(s) /\ s[i] \in cs THEN Fwd(i + 1, cs) ELSE i
        w == Fwd(p + 1, WsChars)
        b == Fwd(w, BlankChars)
    IN IF b = w THEN p ELSE ClusterEnd(s, b - 1)

RECURSIVE ReplaceAll(_, _, _)
\* s.split(p).join(r), p not empty
ReplaceAll(s, p, r) ==
    LET i == IndexOf(s, p)
    IN IF i < 0 THEN s
       ELSE SubSeq(s, 1, i) \o r \o ReplaceAll(Drop(s, i + Len(p)), p, r)


buildSentenceOrderCompletionSentence(payload, orderedOptions) ==
    LET orderedText == Concat([i \in 1..Len(orderedOptions) |->
                          IF orderedOptions[i] \in DOMAIN payload.options
                          THEN payload.options[orderedOptions[i]] ELSE <<>>])
        base == Or(payload.questionWithBlank, payload.questionText)
        p == IndexOf(base, <<StarChar>>) + 1
        first == IF p = 0 THEN base
                 ELSE SubSeq(base, 1, ClusterStart(base, p) - 1) \o orderedText
                      \o Drop(base, ClusterEnd(base, p))
        replaced == ReplaceAll(first, <<StarChar>>, orderedText)
    IN IF base = <<>> THEN orderedText
       ELSE IF replaced # base THEN normalizeWhitespaceLine(replaced)
       ELSE normalizeWhitespaceLine(base \o <<" ">> \o orderedText)

\* `if (!isObject(item)) continue`: the items of a list that are objects;
\* None stands for an item that is none
objectsOf(list) == SelectSeq(list, LAMBDA item : item # None)

\* the last item of the model's list whose key normalises to k, or None
LastItemFor(list, k) ==
    LET idx == {i \in 1..Len(list) : normalizeOptionKey(list[i].option) = k}
    IN IF idx = {} THEN None
       ELSE list[CHOOSE i \in idx : \A j \in idx : j <= i]

Lookup(map, k) == IF k \in DOMAIN map THEN map[k] ELSE <<>>

\* value: the model's options_with_reading, a sequence of
\* [option, text_ja, text_ruby_html, reading_hira] (empty when it is no array)
asOptionWithReading(value, options, optionReadings, optionRubyHtmls) ==
    LET list == objectsOf(value)
        fromModel == {normalizeOptionKey(list[i].option) : i \in 1..Len(list)} \ {""}
        keys == SortKeys(fromModel \cup DOMAIN options)
        entry(k) ==
            LET item == LastItemFor(list, k)
            IN IF item # None
               THEN [option |-> k,
                     text_ja |-> Or(text(item.text_ja), Lookup(options, k)),
                     text_ruby_html |-> Or(Lookup(optionRubyHtmls, k), text(item.text_ruby_html)),
                     reading_hira |-> Or(Lookup(optionReadings, k), text(item.reading_hira))]
               ELSE [option |-> k,
                     text_ja |-> options[k],
                     text_ruby_html |-> Lookup(optionRubyHtmls, k),
                     reading_hira |-> Lookup(optionReadings, k)]
    IN [i \in 1..Len(keys) |-> entry(keys[i])]

\* value: the model's sentence_order_solution, None when it is no object, else
\* [ordered_options, ordered_sentence_ja, ordered_sentence_ruby_html,
\*  ordered_sentence_reading_hira, star_option]
asSentenceOrderSolution(value, payload) ==
    IF payload.questionType # "sentence_order" THEN None
    ELSE LET orderedRaw == IF value = None THEN <<>> ELSE value.ordered_options
             norm == [i \in 1..Len(orderedRaw) |-> normalizeOptionKey(orderedRaw[i])]
         IN [ordered_options |->
                 SelectSeq(norm, LAMBDA o : o # "" /\ o \in DOMAIN payload.options),
             ordered_sentence_ja |->
                 IF value = None THEN <<>> ELSE text(value.ordered_sentence_ja),
             ordered_sentence_ruby_html |->
                 IF value = None THEN <<>> ELSE text(value.ordered_sentence_ruby_html),
             ordered_sentence_reading_hira |->
                 IF value = None THEN <<>> ELSE text(value.ordered_sentence_reading_hira),
             star_option |->
                 IF payload.correctAnswer # "" THEN payload.correctAnswer
                 ELSE IF value = None THEN "" ELSE normalizeOptionKey(value.star_option)]

\* the keys the model gave, none added for the options it left out
allKeys_ModelOnly(fromModel, options) == SortKeys(fromModel)

\* the keys of byOption after the loop over Object.entries(payload.options),
\* in the order of the sort
allKeys(fromModel, options) == SortKeys(fromModel \cup DOMAIN options)

\* `if (payload.correctAnswer)` and the loop under it
forcedVerdict(verdict, option, correctAnswer) ==
    IF correctAnswer = "" THEN verdict
    ELSE IF option = correctAnswer THEN "correct" ELSE "wrong"

\* option_analysis of normalizeExplanation; value: the model's
\* option_analysis, a sequence of [option, verdict, meaning_vi] or None
optionAnalysisOf(value, payload) ==
    LET list == objectsOf(value)
        fromModel == {normalizeOptionKey(list[i].option) : i \in 1..Len(list)} \ {""}
        keys == allKeys(fromModel, payload.options)
        verdict(k) ==
            IF LastItemFor(list, k) # None
            THEN IF LastItemFor(list, k).verdict = "correct" THEN "correct" ELSE "wrong"
            ELSE IF k = payload.correctAnswer THEN "correct" ELSE "wrong"
    IN [i \in 1..Len(keys) |->
           [option |-> keys[i],
            meaning_vi |-> IF LastItemFor(list, keys[i]) # None
                           THEN text(LastItemFor(list, keys[i]).meaning_vi) ELSE <<>>,
            verdict |-> forcedVerdict(verdict(keys[i]), keys[i], payload.correctAnswer)]]

\* `Array.isArray(value.x) ? value.x : []`: a field of the reply that is an
\* array; the record raw has the field only when it is one
arrayField(raw, name) == IF name \in DOMAIN raw THEN raw[name] ELSE <<>>

\* `isObject(value.x) ? value.x : {}`, for the sentence_order_solution
objectField(raw, name) == IF name \in DOMAIN raw THEN raw[name] ELSE None

\* raw: the parsed reply of the primary call, None when it is no object, else
\* a record with some of body, option_analysis, options_with_reading and
\* sentence_order_solution; body stands for the free-text fields, which
\* normalisation copies trimmed
normalizeExplanation(raw, payload, precomputedReadings) ==
    [question_ruby_html |-> precomputedReadings.questionRubyHtml,
     question_reading_hira |-> precomputedReadings.questionReadingHira,
     sentence_order_solution |->
         asSentenceOrderSolution(objectField(raw, "sentence_order_solution"), payload),
     option_analysis |-> optionAnalysisOf(arrayField(raw, "option_analysis"), payload),
     options_with_reading |->
         asOptionWithReading(arrayField(raw, "options_with_reading"),
                             payload.options,
                             precomputedReadings.optionReadings,
                             precomputedReadings.optionRubyHtmls),
     body |-> IF "body" \in DOMAIN raw THEN raw.body ELSE ""]

\* failures of a model call: fetch throws, a non-success status, empty
\* content, content that is no JSON
CallFailures == {"network", "http", "empty", "badjson"}

\* the outcome of a model call is one of these failures
isFailure(reply) == "error" \in DOMAIN reply

\* a repair call whose failure empties the solution
orElse_Dropped(repaired, solution) ==
    IF repaired # None THEN repaired
    ELSE [solution EXCEPT !.ordered_options = <<>>, !.ordered_sentence_ja = <<>>]

\* `if (repaired) solution = repaired`
orElse(repaired, solution) == IF repaired # None THEN repaired ELSE solution

\* reply: the outcome of the repair call: [error |-> f] for a failure f (each
\* of them returns null: `if (!response.ok)`, `if (!raw)`, the catch) or
\* the parsed row [ordered_options, ordered_sentence_ja]
repairSentenceOrderSolutionWithModel(reply, payload, current) ==
    LET optionKeys == SortKeys(DOMAIN payload.options)
    IN IF optionKeys = <<>> \/ isFailure(reply) THEN None
       ELSE LET ordered_options ==
                    uniqueOptions([i \in 1..Len(reply.ordered_options) |->
                                      normalizeOptionKey(reply.ordered_options[i])],
                                  optionKeys)
                completedOrder ==
                    IF hasCompleteOrder(ordered_options, optionKeys) THEN ordered_options
                    ELSE uniqueOptions(ordered_options \o optionKeys, optionKeys)
            IN [current EXCEPT
                  !.ordered_options = completedOrder,
                  !.ordered_sentence_ja =
                      Or(text(reply.ordered_sentence_ja), current.ordered_sentence_ja)]

\* the answer key's order is not looked at
withExpectedOrder_Ignored(solution, expectedOrder, optionKeys) == solution

\* step (1): the answer key's order, when complete, replaces the model's
withExpectedOrder(solution, expectedOrder, optionKeys) ==
    IF hasCompleteOrder(expectedOrder, optionKeys)
    THEN [solution EXCEPT !.ordered_options = expectedOrder]
    ELSE solution

withMergedOrder(solution, mergedOrder) ==
    IF mergedOrder # <<>> THEN [solution EXCEPT !.ordered_options = mergedOrder]
    ELSE solution

\* step (2): the order read off the model's sentence is merged in
withInferredOrder(payload, solution, optionKeys) ==
    withMergedOrder(
        solution,
        uniqueOptions(
            solution.ordered_options
                \o inferOptionOrderFromSentence(solution.ordered_sentence_ja, payload.options),
            optionKeys))

\* the solution before the repair call
mergedSolution(payload, solution) ==
    withInferredOrder(
        payload,
        withExpectedOrder(
            solution,
            uniqueOptions(payload.sentenceOrderExpectedOrder, SortKeys(DOMAIN payload.options)),
            SortKeys(DOMAIN payload.options)),
        SortKeys(DOMAIN payload.options))

\* the repair call issued for every question
needsRepair_Always(payload, explanation) == TRUE

\* TRUE when completeSentenceOrderSolution issues the repair call
needsRepair(payload, explanation) ==
    /\ payload.questionType = "sentence_order"
    /\ explanation.sentence_order_solution # None
    /\ ~hasCompleteOrder(
           mergedSolution(payload, explanation.sentence_order_solution).ordered_options,
           SortKeys(DOMAIN payload.options))

\* the deterministic padding of step (4)
padOrder(orderedOptions, optionKeys) ==
    IF hasCompleteOrder(orderedOptions, optionKeys) THEN orderedOptions
    ELSE uniqueOptions(orderedOptions \o optionKeys, optionKeys)

\* step (3): the repair call, issued while the order is incomplete
withRepair(payload, solution, repairReply, optionKeys) ==
    IF hasCompleteOrder(solution.ordered_options, optionKeys) THEN solution
    ELSE orElse(repairSentenceOrderSolutionWithModel(repairReply, payload, solution),
                solution)

\* step (4)
withPaddedOrder(solution, optionKeys) ==
    [solution EXCEPT !.ordered_options = padOrder(solution.ordered_options, optionKeys)]

\* step (5): the answer key overrides the star option
withStar(payload, solution) ==
    [solution EXCEPT !.star_option =
        IF payload.correctAnswer # "" THEN payload.correctAnswer ELSE @]

\* step (6): the sentence is rebuilt when it lacks a fragment or orders the
\* fragments otherwise
withSentence(payload, solution) ==
    IF \/ ~isSentenceContainsAllOptionTexts(
               solution.ordered_sentence_ja, solution.ordered_options, payload.options)
       \/ ~isSentenceOptionOrderConsistent(
               solution.ordered_sentence_ja, solution.ordered_options, payload.options)
    THEN [solution EXCEPT !.ordered_sentence_ja =
              buildSentenceOrderCompletionSentence(payload, solution.ordered_options)]
    ELSE solution

\* step (7): reading and ruby of the sentence, unless the model gave them
withSentenceReadings(solution) ==
    [solution EXCEPT
       !.ordered_sentence_reading_hira =
           Or(@, toReadingHiragana(solution.ordered_sentence_ja)),
       !.ordered_sentence_ruby_html =
           Or(@, toRubyHtml(solution.ordered_sentence_ja))]

\* repairReply is read only when needsRepair holds
completeSentenceOrderSolution(payload, explanation, repairReply) ==
    IF payload.questionType # "sentence_order" THEN explanation
    ELSE IF explanation.sentence_order_solution = None THEN explanation
    ELSE [explanation EXCEPT !.sentence_order_solution =
            withSentenceReadings(
              withSentence(payload,
                withStar(payload,
                  withPaddedOrder(
                    withRepair(payload,
                               mergedSolution(payload, explanation.sentence_order_solution),
                               repairReply,
                               SortKeys(DOMAIN payload.options)),
                    SortKeys(DOMAIN payload.options)))))]

-----------------------------------------------------------------------------
(* lib/examReadingCache.ts and the context and hydration helpers of        *)
(* routes/exam.ts.                                                         *)

\* toText: the trimmed string, '' standing for null
toText(value) == Trim(value)

\* parseSentenceOrderExpectedOrder; explDigits is what the pattern
\* d-d-d-d matched in the exam's explanation text, split and cleaned:
\* four digits, or <<>> when the text holds no such pattern
parseSentenceOrderExpectedOrder(explDigits, optionKeys) ==
    IF explDigits = <<>> THEN <<>>
    ELSE IF Len(explDigits) # Len(optionKeys) THEN <<>>
    ELSE IF Cardinality(Range(explDigits)) # Len(optionKeys) THEN <<>>
    ELSE IF ~(\A i \in 1..Len(explDigits) : explDigits[i] \in Range(optionKeys)) THEN <<>>
    ELSE explDigits

\* q: a question of the exam part's JSON,
\* [ques, options, answer, explDigits, kind]; kind is the type the metadata
\* table or the classifier gives a question that holds no star.
\* The questions of the model have no passage, so none is a cloze question.
loadQuestionContext(q) ==
    LET kept == {k \in DOMAIN q.options : toText(q.options[k]) # <<>>}
        options == [k \in kept |-> sanitizeOptionText(k, toText(q.options[k]))]
        rawQuestionText == normalizeSpace(stripHtml(toText(q.ques)))
    IN [questionType |-> IF Includes(rawQuestionText, <<StarChar>>)
                         THEN "sentence_order" ELSE q.kind,
        questionText |-> rawQuestionText,
        questionWithBlank |-> rawQuestionText,
        options |-> options,
        correctAnswer |-> q.answer,
        sentenceOrderExpectedOrder |->
            parseSentenceOrderExpectedOrder(q.explDigits, SortKeys(kept))]

\* buildQuestionHash: SHA-256 of JSON.stringify(question).  The digest is
\* taken to be collision-free, so it is the serialised context itself.
buildQuestionHash(question) == <<"sha256", question>>

\* buildQuestionReadingCache followed by the normalizeReadingCache of a read
buildQuestionReadingCache(questionText, options) ==
    [question_ruby_html |-> toRubyHtml(questionText),
     question_reading_hira |-> toReadingHiragana(questionText),
     option_readings |-> [k \in DOMAIN options |-> toReadingHiragana(options[k])],
     option_ruby_htmls |-> [k \in DOMAIN options |-> toRubyHtml(options[k])]]

\* the precomputedReadings argument built by the handler, and the choice
\* generateExamQuestionExplanation makes between it and a fresh computation
precomputedReadingsOf(payload, readingCache) ==
    IF readingCache.question_reading_hira # <<>>
    THEN [questionReadingHira |-> readingCache.question_reading_hira,
          questionRubyHtml |-> readingCache.question_ruby_html,
          optionReadings |-> readingCache.option_readings,
          optionRubyHtmls |-> readingCache.option_ruby_htmls]
    ELSE LET src == Or(payload.questionWithBlank, payload.questionText)
         IN [questionReadingHira |-> toReadingHiragana(src),
             questionRubyHtml |-> toRubyHtml(src),
             optionReadings |->
                 [k \in DOMAIN payload.options |-> toReadingHiragana(payload.options[k])],
             optionRubyHtmls |->
                 [k \in DOMAIN payload.options |-> toRubyHtml(payload.options[k])]]

uniqueOptionKeysLocal(values, allowKeys) ==
    Dedup(SelectSeq(values, LAMBDA k : k # "" /\ k \in Range(allowKeys)), {})

inferOptionOrderFromSentenceLocal(sentence, optionTextByKey) ==
    LET keys == SortKeys(DOMAIN optionTextByKey)
        hits == {[option |-> keys[i],
                  index |-> IF optionTextByKey[keys[i]] # <<>>
                            THEN IndexOf(sentence, optionTextByKey[keys[i]]) ELSE -1,
                  length |-> Len(optionTextByKey[keys[i]]),
                  pos |-> i] : i \in 1..Len(keys)}
    IN IF sentence = <<>> THEN <<>>
       ELSE SortHits({h \in hits : h.option # "" /\ h.index >= 0})

RECURSIVE InjectAll(_, _, _, _)
\* the forEach of injectRubyIntoKnownOptionSegments over the entries left
InjectAll(out, left, optionTextByKey, optionRubyHtmls) ==
    IF left = {} THEN out
    ELSE LET k == CHOOSE x \in left : \A y \in left :
                      \/ Len(optionTextByKey[x]) > Len(optionTextByKey[y])
                      \/ /\ Len(optionTextByKey[x]) = Len(optionTextByKey[y])
                         /\ KeyNum(x) <= KeyNum(y)
         IN InjectAll(ReplaceAll(out, optionTextByKey[k], optionRubyHtmls[k]),
                      left \ {k}, optionTextByKey, optionRubyHtmls)

injectRubyIntoKnownOptionSegments(sentence, optionTextByKey, optionRubyHtmls) ==
    InjectAll(sentence,
              {k \in DOMAIN optionTextByKey :
                  optionTextByKey[k] # <<>> /\ Lookup(optionRubyHtmls, k) # <<>>},
              optionTextByKey, optionRubyHtmls)

\* a hydration without `if (!solution) return solution`: a solution that is
\* null is filled in like an empty one
hydrateSentenceOrderSolutionWithOptionRuby_FromNull(solution, optionTextByKey, optionRubyHtmls) ==
    LET optionKeys == SortKeys(DOMAIN optionTextByKey \ {""})
        ordered == IF solution = None THEN <<>> ELSE solution.ordered_options
    IN [ordered_options |-> uniqueOptionKeysLocal(ordered \o optionKeys, optionKeys),
        ordered_sentence_ja |-> <<>>, ordered_sentence_ruby_html |-> <<>>,
        ordered_sentence_reading_hira |-> <<>>, star_option |-> ""]

hydrateSentenceOrderSolutionWithOptionRuby(solution, optionTextByKey, optionRubyHtmls) ==
    IF solution = None THEN solution
    ELSE LET optionKeys == SortKeys(DOMAIN optionTextByKey \ {""})
             inferred == inferOptionOrderFromSentenceLocal(
                             solution.ordered_sentence_ja, optionTextByKey)
             ordered == uniqueOptionKeysLocal(solution.ordered_options \o inferred, optionKeys)
             completedOrdered ==
                 IF optionKeys # <<>>
                 THEN uniqueOptionKeysLocal(ordered \o optionKeys, optionKeys)
                 ELSE ordered
         IN [solution EXCEPT
               !.ordered_options =
                   IF completedOrdered # <<>> THEN completedOrdered ELSE @,
               !.ordered_sentence_ruby_html =
                   Or(@, injectRubyIntoKnownOptionSegments(
                             solution.ordered_sentence_ja, optionTextByKey, optionRubyHtmls))]

hydrateQuestionExplanationWithReadingCache(explanation, readingCache) ==
    LET optionReadings == readingCache.option_readings
        optionRubyHtmls == readingCache.option_ruby_htmls
        existing == explanation.options_with_reading
        have == {existing[i].option : i \in 1..Len(existing)}
        keys == SortKeys(have \cup DOMAIN optionRubyHtmls)
        itemOf(k) ==
            IF k \in have
            THEN existing[CHOOSE i \in 1..Len(existing) : existing[i].option = k]
            ELSE [option |-> k, text_ja |-> <<>>, text_ruby_html |-> <<>>,
                  reading_hira |-> <<>>]
        hydrated(item) ==
            [item EXCEPT
               !.text_ja = sanitizeOptionText(item.option, item.text_ja),
               !.text_ruby_html = Or(@, Lookup(optionRubyHtmls, item.option)),
               !.reading_hira = Or(@, Lookup(optionReadings, item.option))]
        options_with_reading == [i \in 1..Len(keys) |-> hydrated(itemOf(keys[i]))]
        optionTextByKey ==
            [k \in Range(keys) |->
                options_with_reading[CHOOSE i \in 1..Len(keys) : keys[i] = k].text_ja]
    IN [explanation EXCEPT
          !.question_ruby_html = Or(@, readingCache.question_ruby_html),
          !.question_reading_hira = Or(@, readingCache.question_reading_hira),
          !.options_with_reading = options_with_reading,
          !.sentence_order_solution =
              hydrateSentenceOrderSolutionWithOptionRuby(
                  explanation.sentence_order_solution, optionTextByKey, optionRubyHtmls)]

\* generateExamQuestionExplanation after a primary reply that parsed:
\* normalisation, the sentence-order completion, the result
generatedExplanation(payload, readingCache, raw, repairReply) ==
    completeSentenceOrderSolution(
        payload,
        normalizeExplanation(raw, payload, precomputedReadingsOf(payload, readingCache)),
        repairReply)

-----------------------------------------------------------------------------
(* The store, the exam data and the requests of routes/exam.ts.            *)

\* bounds of the model
MaxRequests == 2
MaxDataChanges == 1
MaxPromptBumps == 1

EXPLANATION_PROMPT_VERSION == 14

\* the accounts: u3 has no exam access, adm has the role ADMIN;
\* u0 is a user id without an account
NonAdmins == {"u1", "u2", "u3"}
Admins == {"adm"}
Users == NonAdmins \cup Admins
Callers == Users \cup {"u0"}
ExamEnabled == {"u1", "u2"}
Slots == {"r1", "r2"}
Kinds == {"question", "passage"}
\* a request's question index: -1 is refused as invalid, 0 exists in the
\* section, 1 does not
QuestionIndexes == {-1, 0, 1}

\* The question at index 0 as the exam part's JSON holds it after v - 1
\* edits: a grammar question whose first option reads "1. 2、3a", and, once
\* edited, a two-fragment sentence-order question.
ExamQuestion(v) ==
    IF v % 2 = 1
    THEN [ques |-> <<"x", " ", "y">>,
          options |-> ("1" :> <<"1", ".", " ", "2", ",", "3", "a">>
                       @@ "2" :> <<"2", ".", " ", "b">>),
          answer |-> "2", explDigits |-> <<>>, kind |-> "grammar_choice"]
    ELSE [ques |-> <<"x", " ", "_", " ", "*", " ", "y">>,
          options |-> ("1" :> <<"a">> @@ "2" :> <<"b">>),
          answer |-> "1", explDigits |-> <<>>, kind |-> "unknown"]

\* parsed replies of the primary call of generateExamQuestionExplanation
QuestionReplies ==
    {[body |-> "A", options_with_reading |-> <<>>, sentence_order_solution |-> None],
     [body |-> "B",
      options_with_reading |->
          <<[option |-> "F2", text_ja |-> <<"b">>, text_ruby_html |-> <<>>,
             reading_hira |-> <<>>]>>,
      sentence_order_solution |->
          [ordered_options |-> <<"2", "1">>,
           ordered_sentence_ja |-> <<"x", " ", "b", "a", " ", "y">>,
           ordered_sentence_ruby_html |-> <<>>,
           ordered_sentence_reading_hira |-> <<>>,
           star_option |-> "2"]]}

\* outcomes of the repair call
RepairReplies ==
    {[error |-> f] : f \in CallFailures} \cup
    {[ordered_options |-> <<"2", "1">>, ordered_sentence_ja |-> <<>>],
     [ordered_options |-> <<"5">>, ordered_sentence_ja |-> <<"a", "b">>]}

\* parsed replies of the primary call of generatePassageExplanation: the
\* free text, and whether some option lacks a meaning or a reason
PassageReplies == {[body |-> "A", missing |-> FALSE], [body |-> "B", missing |-> TRUE]}

\* a catch that answers every failure with 404
failureStatus_NotFound(f) == 404

\* the status the handler's catch answers with
failureStatus(f) == IF f \in {"http", "empty"} THEN 502 ELSE 500

VARIABLES
    examVersion,    \* how many times the exam JSON was edited, plus one
    promptVersion,  \* EXPLANATION_PROMPT_VERSION of the running build
    apiKey,         \* OPENAI_API_KEY is configured
    readingCache,   \* jlpt_exam_reading_cache: question index -> row or None
    explTable,      \* jlpt_question_explanation and jlpt_passage_explanation rows
    quotaLog,       \* the two request_log tables: key -> number of rows
    reqs,           \* the requests in flight, by slot
    nreq,           \* requests started so far
    wins,           \* history: the quota inserts that affected a row
    primary,        \* history: the primary model calls
    saves,          \* history: the saves of generated explanations, in order
    lastDone,       \* history: what the last finished question request returned
    so,             \* state of SpecSO
    proc,           \* state of SpecOnce: the process's once-only initialisations
    norm,           \* state of SpecNorm: one call of normalizeExplanation
    cloze,          \* state of SpecCloze: one question with a passage loaded
    meta,           \* state of SpecMeta: one call of inferJlptQuestionMeta
    pg              \* state of SpecPassage: one passage-group request

vars == <<examVersion, promptVersion, apiKey, readingCache, explTable, quotaLog,
          reqs, nreq, wins, primary, saves, lastDone, so, proc, norm, cloze, meta, pg>>

store == <<readingCache, explTable, quotaLog>>
history == <<wins, primary, saves, lastDone>>

Idle ==
    [pc |-> "idle", id |-> 0, kind |-> "", user |-> "", qidx |-> 0, force |-> FALSE,
     pv |-> 0,
     ctx |-> None, hash |-> None, rc |-> None, raw |-> None, gen |-> None,
     status |-> 0, source |-> "", explanation |-> None,
     ops |-> {}, calls |-> 0, lookedUp |-> None, prev |-> None]

isAdmin(u) == u \in Admins

\* a key without the prompt version
explKey_NoVersion(r) ==
    IF r.kind = "question" THEN <<"question", r.qidx, r.hash, 0>>
    ELSE <<"passage", r.hash, 0>>

\* the unique key of an explanation row and of a request-log row; pv is the
\* EXPLANATION_PROMPT_VERSION of the build that handles the request
explKey(r) ==
    IF r.kind = "question" THEN <<"question", r.qidx, r.hash, r.pv>>
    ELSE <<"passage", r.hash, r.pv>>

quotaKey(r) ==
    IF r.kind = "question" THEN <<"question", r.user, r.qidx, r.pv>>
    ELSE <<"passage", r.user, r.hash, r.pv>>

\* groupHash of the passage handler for the normalised index list
groupHash(questionIndexes, contexts) ==
    <<"sha256", [questionIndexes |-> questionIndexes, passageText |-> <<>>,
                 contexts |-> contexts]>>

\* findCachedExplanation / findCachedPassageExplanation: the row or None
findCached(key) ==
    IF \E row \in explTable : row.key = key
    THEN CHOOSE row \in explTable : row.key = key
    ELSE None

\* a save that replaces the whole table by the new row
upsertExplanation_Only(table, key, explanation) ==
    {[key |-> key, explanation |-> explanation]}

\* an INSERT without the ON CONFLICT clause and without the unique index
upsertExplanation_Insert(table, key, explanation) ==
    table \cup {[key |-> key, explanation |-> explanation]}

\* INSERT ... ON CONFLICT (key) DO UPDATE SET explanation_json = EXCLUDED...
upsertExplanation(table, key, explanation) ==
    {row \in table : row.key # key} \cup {[key |-> key, explanation |-> explanation]}

\* an insert that reports a row whether or not the key was there
insertAffected_Always(log, key) == 1

\* INSERT ... ON CONFLICT (key) DO NOTHING: the rows affected
insertAffected(log, key) == IF key \in DOMAIN log THEN 0 ELSE 1

\* an insert that adds a row whether or not the key is there
insertIfAbsent_Again(log, key) ==
    IF key \in DOMAIN log THEN [log EXCEPT ![key] = @ + 1] ELSE (key :> 1) @@ log

\* INSERT ... ON CONFLICT (key) DO NOTHING: the table after it
insertIfAbsent(log, key) ==
    IF key \in DOMAIN log THEN log ELSE (key :> 1) @@ log

\* what a cache hit answers with
served(r, row) ==
    IF r.kind = "question"
    THEN hydrateQuestionExplanationWithReadingCache(row.explanation, r.rc)
    ELSE row.explanation

Respond(r, status, source, explanation) ==
    [r EXCEPT !.pc = "done", !.status = status, !.source = source,
              !.explanation = explanation]

Others(slot) == Slots \ {slot}

Init ==
    /\ examVersion = 1
    /\ promptVersion = EXPLANATION_PROMPT_VERSION
    /\ apiKey \in BOOLEAN
    /\ readingCache = [q \in {0} |-> None]
    /\ explTable = {}
    /\ quotaLog = <<>>
    /\ reqs = [s \in Slots |-> Idle]
    /\ nreq = 0
    /\ wins = {}
    /\ primary = {}
    /\ saves = <<>>
    /\ lastDone = None
    /\ so = None
    /\ proc = None
    /\ norm = None
    /\ cloze = None
    /\ meta = None
    /\ pg = None

\* a request that finishes: the history of what question requests returned
Finish(r) ==
    IF r.kind # "question" THEN lastDone
    ELSE IF r.status = 200 /\ ~r.force
         THEN [explanation |-> r.explanation, id |-> r.id, qidx |-> r.qidx]
         ELSE None

\* the other requests in flight are no longer "the next call" of anything
Disturb(rs, slot) ==
    [s \in Slots |-> IF s # slot /\ rs[s].pc \notin {"idle", "done"} /\ rs[s].prev # None
                     THEN [rs[s] EXCEPT !.prev = None] ELSE rs[s]]

\* a slot holds a request the handler has not answered yet; an answered
\* request stays in its slot until the next request takes the slot
inFlight(r) == r.pc \notin {"idle", "done"}

\* requireExamAccess: the status it throws, 0 when it lets the user pass
\* (the request carries the code and level the account was given)
requireExamAccess(user) ==
    IF user \notin Users THEN 404
    ELSE IF isAdmin(user) THEN 0
    ELSE IF user \notin ExamEnabled THEN 403
    ELSE 0

\* the forced refresh is let through whoever asks
refusesRefresh_Never(force, user) == FALSE

\* `if (forceRefresh && !isAdmin)`: only an administrator may refresh
refusesRefresh(force, user) == force /\ ~isAdmin(user)

\* A request arrives and takes the first free slot.
\* The handler up to its first read of exam data: the validation of the
\* body, requireExamAccess, the role lookup, the refusal of a forced refresh.
Start(slot, kind, user, qidx, force) ==
    /\ ~inFlight(reqs[slot])
    /\ slot = "r2" => inFlight(reqs["r1"])
    /\ nreq < MaxRequests
    /\ nreq' = nreq + 1
    /\ LET r0 == [Idle EXCEPT !.id = nreq + 1, !.kind = kind, !.user = user,
                              !.qidx = qidx, !.force = force, !.pv = promptVersion]
           alone == \A o \in Others(slot) : ~inFlight(reqs[o])
           r1 == IF qidx < 0 THEN Respond(r0, 400, "", None)
                 ELSE IF requireExamAccess(user) # 0
                 THEN Respond(r0, requireExamAccess(user), "", None)
                 ELSE IF refusesRefresh(force, user)
                 THEN Respond(r0, 403, "", None)
                 ELSE [r0 EXCEPT !.pc = "load",
                                 !.prev = IF /\ kind = "question" /\ ~force /\ alone
                                             /\ lastDone # None /\ lastDone.qidx = qidx
                                          THEN lastDone ELSE None]
       IN /\ reqs' = [Disturb(reqs, slot) EXCEPT ![slot] = r1]
          /\ lastDone' = IF r1.pc = "done" THEN Finish(r1) ELSE lastDone
    /\ UNCHANGED <<examVersion, promptVersion, apiKey, store, wins, primary, saves, so, proc, norm, cloze, meta, pg>>

\* loadQuestionContext: 404 when the section holds no such question
Load(slot) ==
    LET r == reqs[slot]
        r1 == IF r.qidx # 0
              THEN Respond([r EXCEPT !.ops = @ \cup {"load"}], 404, "", None)
              ELSE [r EXCEPT !.pc = "readGet", !.ops = @ \cup {"load"},
                             !.ctx = loadQuestionContext(ExamQuestion(examVersion))]
    IN /\ r.pc = "load"
       /\ reqs' = [reqs EXCEPT ![slot] = r1]
       /\ lastDone' = IF r1.pc = "done" THEN Finish(r1) ELSE lastDone
       /\ UNCHANGED <<examVersion, promptVersion, apiKey, store, nreq, wins, primary,
                      saves, so, proc, norm, cloze, meta, pg>>

\* the content hash of the request, once its reading cache row is at hand
hashed(r, rc) ==
    [r EXCEPT !.rc = rc,
              !.hash = IF r.kind = "question" THEN buildQuestionHash(r.ctx)
                       ELSE groupHash(<<r.qidx>>, <<r.ctx>>),
              !.pc = IF r.force THEN "generate" ELSE "lookup"]

\* getOrCreateQuestionReadingCache: the read of the row
ReadingGet(slot) ==
    LET r == reqs[slot]
        row == readingCache[r.qidx]
    IN /\ r.pc = "readGet"
       /\ reqs' = [reqs EXCEPT ![slot] =
                     IF row # None THEN hashed([r EXCEPT !.ops = @ \cup {"readGet"}], row)
                     ELSE [r EXCEPT !.pc = "readSave", !.ops = @ \cup {"readGet"}]]
       /\ UNCHANGED <<examVersion, promptVersion, apiKey, store, nreq, history, so, proc, norm, cloze, meta, pg>>

\* getOrCreateQuestionReadingCache: the row is built and upserted
ReadingSave(slot) ==
    LET r == reqs[slot]
        built == buildQuestionReadingCache(r.ctx.questionText, r.ctx.options)
    IN /\ r.pc = "readSave"
       /\ readingCache' = [readingCache EXCEPT ![r.qidx] = built]
       /\ reqs' = [reqs EXCEPT ![slot] = hashed([r EXCEPT !.ops = @ \cup {"readSave"}], built)]
       /\ UNCHANGED <<examVersion, promptVersion, apiKey, explTable, quotaLog, nreq,
                      history, so, proc, norm, cloze, meta, pg>>

\* a privileged request skips the quota gate
afterMiss_Quota(r) == "quota"

\* where a request goes on a miss of its first lookup: `if (!isAdmin)`
afterMiss(r) == IF isAdmin(r.user) THEN "generate" ELSE "quota"

\* the first cache lookup of a request without forceRefresh
CacheLookup(slot) ==
    LET r == [reqs[slot] EXCEPT !.ops = @ \cup {"lookup"}, !.lookedUp = explKey(reqs[slot])]
        cached == findCached(explKey(r))
        r1 == IF cached # None THEN Respond(r, 200, "cache", served(r, cached))
              ELSE [r EXCEPT !.pc = afterMiss(r)]
    IN /\ reqs[slot].pc = "lookup"
       /\ reqs' = [reqs EXCEPT ![slot] = r1]
       /\ lastDone' = IF r1.pc = "done" THEN Finish(r1) ELSE lastDone
       /\ UNCHANGED <<examVersion, promptVersion, apiKey, store, nreq, wins, primary,
                      saves, so, proc, norm, cloze, meta, pg>>

\* consumeNonAdminExplanationQuota / consumeNonAdminPassageExplanationQuota
Quota(slot) ==
    LET r == [reqs[slot] EXCEPT !.ops = @ \cup {"quota"}]
        key == quotaKey(r)
        canGenerate == insertAffected(quotaLog, key) > 0
    IN /\ reqs[slot].pc = "quota"
       /\ quotaLog' = insertIfAbsent(quotaLog, key)
       /\ wins' = IF canGenerate
                  THEN wins \cup {[req |-> r.id, key |-> key, user |-> r.user,
                                    force |-> r.force, missed |-> "lookup" \in r.ops]}
                  ELSE wins
       /\ reqs' = [reqs EXCEPT ![slot] =
                     [r EXCEPT !.pc = IF canGenerate THEN "generate" ELSE "recheck"]]
       /\ UNCHANGED <<examVersion, promptVersion, apiKey, readingCache, explTable, nreq,
                      primary, saves, lastDone, so, proc, norm, cloze, meta, pg>>

\* a request that lost the quota insert generates all the same
recheckAnswer_Generate(r, cached) ==
    IF cached # None THEN Respond(r, 200, "cache", served(r, cached))
    ELSE [r EXCEPT !.pc = "generate"]

\* the answer after the second lookup: the entry found, else 429
recheckAnswer(r, cached) ==
    IF cached # None THEN Respond(r, 200, "cache", served(r, cached))
    ELSE Respond(r, 429, "", None)

\* the second lookup, after a quota insert that affected no row
Recheck(slot) ==
    LET r == [reqs[slot] EXCEPT !.ops = @ \cup {"recheck"}, !.lookedUp = explKey(reqs[slot])]
        cached == findCached(explKey(r))
        r1 == recheckAnswer(r, cached)
    IN /\ reqs[slot].pc = "recheck"
       /\ reqs' = [reqs EXCEPT ![slot] = r1]
       /\ lastDone' = IF r1.pc = "done" THEN Finish(r1) ELSE lastDone
       /\ UNCHANGED <<examVersion, promptVersion, apiKey, store, nreq, wins, primary,
                      saves, so, proc, norm, cloze, meta, pg>>

\* the record of a primary model call
called(r) == [req |-> r.id, user |-> r.user, key |-> quotaKey(r)]

\* generateExamQuestionExplanation up to the end of its primary call; a
\* reply that leaves the order incomplete goes on to the repair call
QuestionGenerate(slot) ==
    LET r == reqs[slot]
    IN /\ r.pc = "generate"
       /\ r.kind = "question"
       /\ IF ~apiKey
          THEN /\ reqs' = [reqs EXCEPT ![slot] = Respond(r, 500, "", None)]
               /\ primary' = primary
          ELSE /\ primary' = primary \cup {called(r)}
               /\ LET r0 == [r EXCEPT !.calls = @ + 1, !.ops = @ \cup {"model"}]
                  IN \/ \E f \in CallFailures :
                          reqs' = [reqs EXCEPT ![slot] =
                                     Respond(r0, failureStatus(f), "", None)]
                     \/ \E raw \in QuestionReplies :
                          LET normalized ==
                                  normalizeExplanation(raw, r.ctx,
                                      precomputedReadingsOf(r.ctx, r.rc))
                          IN reqs' = [reqs EXCEPT ![slot] =
                                 IF needsRepair(r.ctx, normalized)
                                 THEN [r0 EXCEPT !.pc = "repair", !.raw = raw]
                                 ELSE [r0 EXCEPT !.pc = "save",
                                          !.gen = hydrateQuestionExplanationWithReadingCache(
                                                      generatedExplanation(r.ctx, r.rc, raw, Error),
                                                      r.rc)]]
       /\ lastDone' = IF reqs'[slot].pc = "done" THEN Finish(reqs'[slot]) ELSE lastDone
       /\ UNCHANGED <<examVersion, promptVersion, apiKey, store, nreq, wins, saves, so, proc, norm, cloze, meta, pg>>

\* the repair call of completeSentenceOrderSolution and the rest of the
\* generation; the handler hydrates what it is about to save
QuestionRepair(slot) ==
    LET r == reqs[slot]
    IN /\ r.pc = "repair"
       /\ \E reply \in RepairReplies :
            reqs' = [reqs EXCEPT ![slot] =
                       [r EXCEPT !.pc = "save", !.calls = @ + 1,
                                 !.ops = @ \cup {"repair"},
                                 !.gen = hydrateQuestionExplanationWithReadingCache(
                                             generatedExplanation(r.ctx, r.rc, r.raw, reply),
                                             r.rc)]]
       /\ UNCHANGED <<examVersion, promptVersion, apiKey, store, nreq, history, so, proc, norm, cloze, meta, pg>>

\* generatePassageExplanation up to the end of its primary call; a reply
\* with an option that lacks a meaning or a reason goes on to the fill call
PassageGenerate(slot) ==
    LET r == reqs[slot]
    IN /\ r.pc = "generate"
       /\ r.kind = "passage"
       /\ IF ~apiKey
          THEN /\ reqs' = [reqs EXCEPT ![slot] = Respond(r, 500, "", None)]
               /\ primary' = primary
          ELSE /\ primary' = primary \cup {called(r)}
               /\ LET r0 == [r EXCEPT !.calls = @ + 1, !.ops = @ \cup {"model"}]
                  IN \/ \E f \in CallFailures :
                          reqs' = [reqs EXCEPT ![slot] =
                                     Respond(r0, failureStatus(f), "", None)]
                     \/ \E raw \in PassageReplies :
                          reqs' = [reqs EXCEPT ![slot] =
                                 IF raw.missing
                                 THEN [r0 EXCEPT !.pc = "fill", !.raw = raw]
                                 ELSE [r0 EXCEPT !.pc = "save",
                                          !.gen = [body |-> raw.body, options |-> "model"]]]
       /\ UNCHANGED <<examVersion, promptVersion, apiKey, store, nreq, wins, saves,
                      lastDone, so, proc, norm, cloze, meta, pg>>

\* fillMissingPassageOptionContent: the fill call; any failure of it
\* leaves the deterministic fallback text in the missing fields
PassageFill(slot) ==
    LET r == reqs[slot]
    IN /\ r.pc = "fill"
       /\ \E ok \in BOOLEAN :
            reqs' = [reqs EXCEPT ![slot] =
                       [r EXCEPT !.pc = "save", !.calls = @ + 1, !.ops = @ \cup {"fill"},
                                 !.gen = [body |-> r.raw.body,
                                          options |-> IF ok THEN "filled" ELSE "fallback"]]]
       /\ UNCHANGED <<examVersion, promptVersion, apiKey, store, nreq, history, so, proc, norm, cloze, meta, pg>>

\* saveCachedExplanation / saveCachedPassageExplanation, then the answer
Save(slot) ==
    LET r == [reqs[slot] EXCEPT !.ops = @ \cup {"save"}]
        r1 == Respond(r, 200, "openai", r.gen)
    IN /\ reqs[slot].pc = "save"
       /\ explTable' = upsertExplanation(explTable, explKey(r), r.gen)
       /\ reqs' = [reqs EXCEPT ![slot] = r1]
       /\ saves' = Append(saves, [req |-> r.id, kind |-> r.kind, user |-> r.user,
                                   quota |-> quotaKey(r),
                                   key |-> explKey(r), ctx |-> r.ctx, pv |-> r.pv,
                                   explanation |-> r.gen])
       /\ lastDone' = Finish(r1)
       /\ UNCHANGED <<examVersion, promptVersion, apiKey, readingCache, quotaLog, nreq,
                      wins, primary, so, proc, norm, cloze, meta, pg>>

\* the exam part's JSON is edited
ChangeExamData ==
    /\ examVersion < 1 + MaxDataChanges
    /\ examVersion' = examVersion + 1
    /\ lastDone' = None
    /\ reqs' = Disturb(reqs, "")
    /\ UNCHANGED <<promptVersion, apiKey, store, nreq, wins, primary, saves, so, proc, norm, cloze, meta, pg>>

\* a build with a higher EXPLANATION_PROMPT_VERSION replaces the running one
Deploy ==
    /\ promptVersion < EXPLANATION_PROMPT_VERSION + MaxPromptBumps
    /\ \A s \in Slots : ~inFlight(reqs[s])
    /\ promptVersion' = promptVersion + 1
    /\ lastDone' = None
    /\ UNCHANGED <<examVersion, apiKey, store, reqs, nreq, wins, primary, saves, so, proc, norm, cloze, meta, pg>>

Next ==
    \/ \E slot \in Slots, kind \in Kinds, user \in Callers, qidx \in QuestionIndexes,
          force \in BOOLEAN :
            Start(slot, kind, user, qidx, force)
    \/ \E slot \in Slots : Load(slot)
    \/ \E slot \in Slots : ReadingGet(slot)
    \/ \E slot \in Slots : ReadingSave(slot)
    \/ \E slot \in Slots : CacheLookup(slot)
    \/ \E slot \in Slots : Quota(slot)
    \/ \E slot \in Slots : Recheck(slot)
    \/ \E slot \in Slots : QuestionGenerate(slot)
    \/ \E slot \in Slots : QuestionRepair(slot)
    \/ \E slot \in Slots : PassageGenerate(slot)
    \/ \E slot \in Slots : PassageFill(slot)
    \/ \E slot \in Slots : Save(slot)
    \/ ChangeExamData
    \/ Deploy

Spec == Init /\ [][Next]_vars

-----------------------------------------------------------------------------
(* SpecSO: one sentence-order question through generation, the save and a  *)
(* later cache hit, with more questions and model replies than Spec has.   *)

\* sentence-order questions of the exam data: three fragments; a stem that
\* itself holds the text of a fragment; four fragments with an answer key
\* order in the exam's own explanation; a star without blanks and no answer;
\* fragments that are parts of one another
SOQuestions ==
    {[ques |-> <<"x", " ", "_", " ", "_", " ", "*", " ", "y">>,
      options |-> ("1" :> <<"a">> @@ "2" :> <<"b">> @@ "3" :> <<"c">>),
      answer |-> "2", explDigits |-> <<>>, kind |-> "unknown"],
     [ques |-> <<"a", " ", "_", " ", "*", " ", "y">>,
      options |-> ("1" :> <<"a">> @@ "2" :> <<"b">>),
      answer |-> "1", explDigits |-> <<>>, kind |-> "unknown"],
     [ques |-> <<"x", " ", "_", " ", "_", " ", "*", " ", "_", " ", "y">>,
      options |-> ("1" :> <<"a">> @@ "2" :> <<"b">> @@ "3" :> <<"c">> @@ "4" :> <<"d">>),
      answer |-> "1", explDigits |-> <<"2", "4", "1", "3">>, kind |-> "unknown"],
     [ques |-> <<"x", "*", "y">>,
      options |-> ("1" :> <<"a", "b">> @@ "2" :> <<"b">>),
      answer |-> "", explDigits |-> <<>>, kind |-> "unknown"],
     [ques |-> <<"x", " ", "_", " ", "*", " ", "_", " ", "z">>,
      options |-> ("1" :> <<"a", "b">> @@ "2" :> <<"a">> @@ "3" :> <<"3", ".", " ", "b">>),
      answer |-> "3", explDigits |-> <<>>, kind |-> "unknown"]}

modelSolution(ordered, sentence, star) ==
    [ordered_options |-> ordered, ordered_sentence_ja |-> sentence,
     ordered_sentence_ruby_html |-> <<>>, ordered_sentence_reading_hira |-> <<>>,
     star_option |-> star]

\* parsed replies of the primary call for these questions
SOReplies ==
    {None,
     [body |-> "A", options_with_reading |-> <<>>,
      sentence_order_solution |->
          modelSolution(<<"2", "1", "3">>, <<"x", " ", "b", "a", "c", " ", "y">>, "1")],
     [body |-> "A",
      options_with_reading |->
          <<[option |-> "5", text_ja |-> <<"e">>, text_ruby_html |-> <<>>,
             reading_hira |-> <<>>]>>,
      sentence_order_solution |-> modelSolution(<<"F2", "1">>, <<>>, "")],
     [body |-> "A", options_with_reading |-> <<>>,
      sentence_order_solution |->
          modelSolution(<<"1", "1", "5">>, <<"b", " ", "a">>, "x3")],
     [body |-> "A", options_with_reading |-> <<>>,
      sentence_order_solution |->
          modelSolution(<<"1", "2">>, <<"b", "a", "b">>, "2")],
     [body |-> "A",
      options_with_reading |->
          <<[option |-> "1", text_ja |-> <<"1", ".", "2", ",", "a">>,
             text_ruby_html |-> <<"r">>, reading_hira |-> <<>>]>>,
      sentence_order_solution |->
          modelSolution(<<"3", "2", "1", "4">>, <<"c", "b", "a", "d">>, "")]}

\* outcomes of the repair call for these questions
SORepairReplies ==
    RepairReplies \cup
    {[ordered_options |-> <<"3", "1">>, ordered_sentence_ja |-> <<"c", "x", "a">>],
     [ordered_options |-> <<"4", "3", "2", "1">>, ordered_sentence_ja |-> <<"d", "c", "b", "a">>]}

InitSO ==
    /\ examVersion = 1
    /\ promptVersion = EXPLANATION_PROMPT_VERSION
    /\ apiKey = TRUE
    /\ readingCache = [q \in {0} |-> None]
    /\ explTable = {}
    /\ quotaLog = <<>>
    /\ reqs = [s \in Slots |-> Idle]
    /\ nreq = 0
    /\ wins = {}
    /\ primary = {}
    /\ saves = <<>>
    /\ lastDone = None
    /\ so = [pc |-> "start", ctx |-> None, rc |-> None, raw |-> None,
             saved |-> None, served |-> None]
    /\ proc = None
    /\ norm = None
    /\ cloze = None
    /\ meta = None
    /\ pg = None

request == <<examVersion, promptVersion, apiKey, store, reqs, nreq, history>>

\* loadQuestionContext and the reading cache row of a request for q
SOLoad(q) ==
    /\ so.pc = "start"
    /\ LET ctx == loadQuestionContext(q)
       IN so' = [so EXCEPT !.pc = "generate", !.ctx = ctx,
                           !.rc = buildQuestionReadingCache(ctx.questionText, ctx.options)]
    /\ UNCHANGED <<request, proc, norm, cloze, meta, pg>>

\* the primary call returns raw; the handler hydrates and saves the result
\* unless the repair call comes first
SOPrimary(raw) ==
    /\ so.pc = "generate"
    /\ so' = IF needsRepair(so.ctx,
                            normalizeExplanation(raw, so.ctx,
                                                 precomputedReadingsOf(so.ctx, so.rc)))
             THEN [so EXCEPT !.pc = "repair", !.raw = raw]
             ELSE [so EXCEPT !.pc = "saved", !.raw = raw,
                             !.saved = hydrateQuestionExplanationWithReadingCache(
                                           generatedExplanation(so.ctx, so.rc, raw, Error),
                                           so.rc)]
    /\ UNCHANGED <<request, proc, norm, cloze, meta, pg>>

\* the repair call returns reply; the handler hydrates and saves the result
SORepair(reply) ==
    /\ so.pc = "repair"
    /\ so' = [so EXCEPT !.pc = "saved",
                        !.saved = hydrateQuestionExplanationWithReadingCache(
                                      generatedExplanation(so.ctx, so.rc, so.raw, reply),
                                      so.rc)]
    /\ UNCHANGED <<request, proc, norm, cloze, meta, pg>>

\* a later request finds the saved row and answers with it, hydrated
SOServe ==
    /\ so.pc = "saved"
    /\ so' = [so EXCEPT !.pc = "served",
                        !.served = hydrateQuestionExplanationWithReadingCache(so.saved, so.rc)]
    /\ UNCHANGED <<request, proc, norm, cloze, meta, pg>>

\* on to the next question
SOReset ==
    /\ so.pc = "served"
    /\ so' = [pc |-> "start", ctx |-> None, rc |-> None, raw |-> None,
              saved |-> None, served |-> None]
    /\ UNCHANGED <<request, proc, norm, cloze, meta, pg>>

NextSO ==
    \/ \E q \in SOQuestions : SOLoad(q)
    \/ \E raw \in SOReplies : SOPrimary(raw)
    \/ \E reply \in SORepairReplies : SORepair(reply)
    \/ SOServe
    \/ SOReset

SpecSO == InitSO /\ [][NextSO]_vars

-----------------------------------------------------------------------------
(* SpecOnce: the initialisations a process makes once, each behind a       *)
(* module-level promise: the kuromoji tokenizer (tokenizerPromise), the    *)
(* explanation and request-log tables (ensureExplainTablePromise) and the  *)
(* reading cache table (ensureTablePromise).                               *)

MaxCalls == 4
MaxRuns == 2

Guards == {"tokenizer", "explainTable", "readingTable"}
\* the async callers of getTokenizer and of the two ensure functions
Clients == {"c1", "c2"}

\* the guard is never set again: every call starts a run
startsRun_Always(promise) == TRUE

\* `if (!tokenizerPromise)`, `if (!ensureTablePromise)`: 0 is null
startsRun(promise) == promise = 0

\* a catch handler that leaves the rejected promise in the guard
cleared_Kept(promise) == promise

\* the catch handler's `tokenizerPromise = null`
cleared(promise) == 0

InitOnce ==
    /\ examVersion = 1
    /\ promptVersion = EXPLANATION_PROMPT_VERSION
    /\ apiKey = TRUE
    /\ readingCache = [q \in {0} |-> None]
    /\ explTable = {}
    /\ quotaLog = <<>>
    /\ reqs = [s \in Slots |-> Idle]
    /\ nreq = 0
    /\ wins = {}
    /\ primary = {}
    /\ saves = <<>>
    /\ lastDone = None
    /\ so = None
    /\ norm = None
    /\ cloze = None
    /\ meta = None
    /\ pg = None
    /\ proc = [promise |-> [g \in Guards |-> 0],
               runs |-> [g \in Guards |-> <<>>],
               waits |-> [c \in Clients |-> [pc |-> "idle", guard |-> "", run |-> 0]],
               ncalls |-> 0,
               outcomes |-> {}]

\* getTokenizer / ensureQuestionExplanationTable / ensureExamReadingCacheTable
\* up to their return: the run is started when the guard is null, and the
\* caller awaits the promise in the guard
OnceCall(c, g) ==
    /\ proc.waits[c].pc = "idle"
    /\ proc.ncalls < MaxCalls
    /\ startsRun(proc.promise[g]) => Len(proc.runs[g]) < MaxRuns
    /\ LET runs1 == IF startsRun(proc.promise[g])
                    THEN Append(proc.runs[g], "pending") ELSE proc.runs[g]
           promise1 == IF startsRun(proc.promise[g]) THEN Len(runs1) ELSE proc.promise[g]
       IN proc' = [proc EXCEPT !.promise[g] = promise1,
                               !.runs[g] = runs1,
                               !.waits[c] = [pc |-> "await", guard |-> g, run |-> promise1],
                               !.ncalls = @ + 1]
    /\ UNCHANGED <<request, so, norm, cloze, meta, pg>>

\* the build of the tokenizer, or the DDL, ends well
OnceSucceed(g) ==
    /\ \E i \in 1..Len(proc.runs[g]) :
          /\ proc.runs[g][i] = "pending"
          /\ proc' = [proc EXCEPT !.runs[g][i] = "fulfilled"]
    /\ UNCHANGED <<request, so, norm, cloze, meta, pg>>

\* the build, or a DDL statement, fails
OnceFail(g) ==
    /\ \E i \in 1..Len(proc.runs[g]) :
          /\ proc.runs[g][i] = "pending"
          /\ proc' = [proc EXCEPT !.runs[g][i] = "failed"]
    /\ UNCHANGED <<request, so, norm, cloze, meta, pg>>

\* the catch handler of a failed run: it clears the guard and rethrows, which
\* rejects the promise the callers await
OnceCatch(g) ==
    /\ \E i \in 1..Len(proc.runs[g]) :
          /\ proc.runs[g][i] = "failed"
          /\ proc' = [proc EXCEPT !.runs[g][i] = "rejected",
                                  !.promise[g] = cleared(@)]
    /\ UNCHANGED <<request, so, norm, cloze, meta, pg>>

\* a caller's await ends: with the value of a fulfilled promise, or with the
\* error of a rejected one
OnceSettle(c) ==
    LET w == proc.waits[c]
    IN /\ w.pc = "await"
       /\ proc.runs[w.guard][w.run] \in {"fulfilled", "rejected"}
       /\ proc' = [proc EXCEPT
                     !.waits[c] = [pc |-> "idle", guard |-> "", run |-> 0],
                     !.outcomes = @ \cup {[client |-> c, guard |-> w.guard, run |-> w.run,
                                           ok |-> proc.runs[w.guard][w.run] = "fulfilled"]}]
       /\ UNCHANGED <<request, so, norm, cloze, meta, pg>>

NextOnce ==
    \/ \E c \in Clients, g \in Guards : OnceCall(c, g)
    \/ \E g \in Guards : OnceSucceed(g)
    \/ \E g \in Guards : OnceFail(g)
    \/ \E g \in Guards : OnceCatch(g)
    \/ \E c \in Clients : OnceSettle(c)

SpecOnce == InitOnce /\ [][NextOnce]_vars

-----------------------------------------------------------------------------
(* SpecNorm: normalizeExplanation applied to the replies a model can give  *)
(* for a question.                                                         *)

MaxItems == 2

\* questions of the exam data: four options with the answer key 2, with
\* none and with 4; two options; a sentence-order question
NormQuestions ==
    {[ques |-> <<"x", " ", "y">>,
      options |-> ("1" :> <<"a">> @@ "2" :> <<"b">> @@ "3" :> <<"c">> @@ "4" :> <<"d">>),
      answer |-> a, explDigits |-> <<>>, kind |-> "grammar_choice"] : a \in {"2", "", "4"}}
    \cup
    {[ques |-> <<"x", " ", "y">>,
      options |-> ("1" :> <<"1", ".", " ", "a">> @@ "2" :> <<"b">>),
      answer |-> "1", explDigits |-> <<>>, kind |-> "unknown"],
     [ques |-> <<"x", " ", "_", " ", "*", " ", "y">>,
      options |-> ("1" :> <<"a">> @@ "2" :> <<"b">>),
      answer |-> "2", explDigits |-> <<>>, kind |-> "unknown"]}

\* the items a model can put into option_analysis: None is an item that is
\* no object; the key may be full-width, outside 1-4 or blank, the verdict
\* any text
NormItems ==
    {None} \cup
    {[option |-> o, verdict |-> v, meaning_vi |-> <<" ", "m">>] :
        o \in {"1", "F2", "5", ""}, v \in {"correct", "wrong", "maybe"}}

NormItemLists ==
    UNION {[1..n -> NormItems] : n \in 0..MaxItems}

\* the parsed replies: no object; an empty object; objects with an
\* option_analysis array, with or without the other fields
NormReplies ==
    {None, <<>>}
    \cup {[option_analysis |-> l] : l \in NormItemLists}
    \cup {[body |-> "A", option_analysis |-> l,
           options_with_reading |->
               <<None, [option |-> "F2", text_ja |-> <<>>, text_ruby_html |-> <<>>,
                        reading_hira |-> <<"k">>]>>,
           sentence_order_solution |-> modelSolution(<<"2", "1">>, <<>>, "1")] :
          l \in [1..1 -> NormItems]}

InitNorm ==
    /\ examVersion = 1
    /\ promptVersion = EXPLANATION_PROMPT_VERSION
    /\ apiKey = TRUE
    /\ readingCache = [q \in {0} |-> None]
    /\ explTable = {}
    /\ quotaLog = <<>>
    /\ reqs = [s \in Slots |-> Idle]
    /\ nreq = 0
    /\ wins = {}
    /\ primary = {}
    /\ saves = <<>>
    /\ lastDone = None
    /\ so = None
    /\ proc = None
    /\ norm = [pc |-> "start", payload |-> None, rc |-> None, raw |-> None, out |-> None]
    /\ cloze = None
    /\ meta = None
    /\ pg = None

\* the payload of a request for question q
NormLoad(q) ==
    /\ norm.pc = "start"
    /\ LET ctx == loadQuestionContext(q)
       IN norm' = [norm EXCEPT !.pc = "loaded", !.payload = ctx,
                               !.rc = buildQuestionReadingCache(ctx.questionText,
                                                                ctx.options)]
    /\ UNCHANGED <<request, so, proc, cloze, meta, pg>>

\* normalizeExplanation(parsed, payload, precomputedReadings)
NormApply(raw) ==
    /\ norm.pc = "loaded"
    /\ norm' = [norm EXCEPT !.pc = "done", !.raw = raw,
                            !.out = normalizeExplanation(
                                        raw, norm.payload,
                                        precomputedReadingsOf(norm.payload, norm.rc))]
    /\ UNCHANGED <<request, so, proc, cloze, meta, pg>>

\* on to the next call
NormReset ==
    /\ norm.pc = "done"
    /\ norm' = [pc |-> "start", payload |-> None, rc |-> None, raw |-> None, out |-> None]
    /\ UNCHANGED <<request, so, proc, cloze, meta, pg>>

NextNorm ==
    \/ \E q \in NormQuestions : NormLoad(q)
    \/ \E raw \in NormReplies : NormApply(raw)
    \/ NormReset

SpecNorm == InitNorm /\ [][NextNorm]_vars

-----------------------------------------------------------------------------
(* SpecCloze: loadQuestionContext for a question that points at a passage: *)
(* the blank marker, the sentence around it and the cloze decision.        *)
(* Stand-ins: "[" and "]" are the full-width brackets U+FF08 and U+FF09,   *)
(* ";" is the ideographic full stop U+3002 (and its half-width form        *)
(* U+FF61), "|" is the full-width full stop U+FF0E, "!" and "?" stand for  *)
(* themselves and for their full-width forms.                              *)

\* the characters at which findSentenceStart and findSentenceEnd stop
SentenceEnds == {"\n", ";", "|", "!", "?"}

\* every text that is not empty counts as a marker
isOnlyBlankMarker_Any(t) == t # <<>>

\* /^[()（]?\d{1,3}[)）]?[.．。、]?$/ on the text without
\* its whitespace
isOnlyBlankMarker(t) ==
    LET normalized == SelectSeq(t, LAMBDA c : c \notin WsChars)
        a == IF normalized # <<>> /\ Head(normalized) \in {"(", ")", "["}
             THEN Tail(normalized) ELSE normalized
        d == Len(a) - Len(SkipWhile(a, DigitChars))
        b == Drop(a, d)
        c == IF b # <<>> /\ Head(b) \in {")", "]"} THEN Tail(b) ELSE b
        e == IF c # <<>> /\ Head(c) \in {".", "|", ";", ","} THEN Tail(c) ELSE c
    IN t # <<>> /\ d \in 1..3 /\ e = <<>>

\* extractDigits: the first run of digits, as String(Number(run)) prints it
extractDigits(value) ==
    LET from == SkipWhile(value, {c \in Range(value) : c \notin DigitChars})
        run == SubSeq(from, 1, Len(from) - Len(SkipWhile(from, DigitChars)))
        significant == SkipWhile(run, {"0"})
    IN IF run = <<>> THEN <<>>
       ELSE IF significant = <<>> THEN <<"0">> ELSE significant

\* the markers to look for, in the order of the Set they are added to
buildBlankMarkerCandidates(rawQuestionText, questionLabel) ==
    LET questionText == Trim(rawQuestionText)
        labelText == Trim(questionLabel)
        labels == IF isOnlyBlankMarker(questionText)
                  THEN IF extractDigits(questionText) # <<>>
                       THEN <<extractDigits(questionText)>> ELSE <<>>
                  ELSE IF labelText # <<>>
                  THEN IF extractDigits(labelText) \notin {<<>>, labelText}
                       THEN <<labelText, extractDigits(labelText)>>
                       ELSE <<labelText>>
                  ELSE <<>>
    IN Concat([i \in 1..Len(labels) |->
                  << <<"(">> \o labels[i] \o <<")">>, <<"[">> \o labels[i] \o <<"]">> >>])

\* the index after the last sentence end before index, 0 when there is none
findSentenceStart(t, index) ==
    LET ends == {i \in 0..(index - 1) : t[i + 1] \in SentenceEnds}
    IN IF ends = {} THEN 0
       ELSE (CHOOSE i \in ends : \A j \in ends : j <= i) + 1

\* the index after the first sentence end at or after index, else the length
findSentenceEnd(t, index) ==
    LET ends == {i \in index..(Len(t) - 1) : t[i + 1] \in SentenceEnds}
    IN IF ends = {} THEN Len(t)
       ELSE (CHOOSE i \in ends : \A j \in ends : i <= j) + 1

extractSentenceAroundBlank(passageText, markers) ==
    LET found == {i \in 1..Len(markers) : IndexOf(passageText, markers[i]) >= 0}
        first == CHOOSE i \in found : \A j \in found :
                    \/ IndexOf(passageText, markers[i]) < IndexOf(passageText, markers[j])
                    \/ /\ IndexOf(passageText, markers[i]) = IndexOf(passageText, markers[j])
                       /\ i <= j
        markerIndex == IndexOf(passageText, markers[first])
    IN IF passageText = <<>> \/ found = {} THEN <<>>
       ELSE normalizeSpace(
                SubSeq(passageText,
                       findSentenceStart(passageText, markerIndex) + 1,
                       findSentenceEnd(passageText, markerIndex + Len(markers[first]))))

\* the first marker the sentence holds is replaced where it first occurs
replaceBlankMarker(sentence, markers, answerText) ==
    LET held == {i \in 1..Len(markers) : Includes(sentence, markers[i])}
        m == markers[CHOOSE i \in held : \A j \in held : i <= j]
        at == IndexOf(sentence, m)
    IN IF sentence = <<>> \/ markers = <<>> \/ answerText = <<>> \/ held = {} THEN <<>>
       ELSE normalizeSpace(SubSeq(sentence, 1, at) \o answerText
                           \o Drop(sentence, at + Len(m)))

\* loadQuestionContext for q = [ques, passage, options, answer, label]: the
\* fields that depend on the passage; label is labelForMarker.  The fixed
\* words of buildQuestionPromptText are the tokens "blank:" and "answer:".
loadClozeContext(q) ==
    LET kept == {k \in DOMAIN q.options : toText(q.options[k]) # <<>>}
        options == [k \in kept |-> sanitizeOptionText(k, toText(q.options[k]))]
        rawQuestionText == normalizeSpace(stripHtml(toText(q.ques)))
        passageText == normalizeSpace(stripHtml(toText(q.passage)))
        markerCandidates == buildBlankMarkerCandidates(rawQuestionText, q.label)
        sentenceWithBlank == extractSentenceAroundBlank(passageText, markerCandidates)
        answerText == IF q.answer # "" /\ q.answer \in kept THEN options[q.answer] ELSE <<>>
        sentenceWithAnswer == replaceBlankMarker(sentenceWithBlank, markerCandidates, answerText)
        isClozeQuestion == sentenceWithBlank # <<>> /\ isOnlyBlankMarker(rawQuestionText)
        questionWithBlank == IF isClozeQuestion THEN sentenceWithBlank ELSE rawQuestionText
        questionWithAnswer == IF isClozeQuestion THEN sentenceWithAnswer ELSE <<>>
    IN [isClozeQuestion |-> isClozeQuestion,
        questionWithBlank |-> questionWithBlank,
        questionWithAnswer |-> questionWithAnswer,
        questionText |->
            IF isClozeQuestion /\ questionWithAnswer # <<>>
            THEN <<"blank:">> \o questionWithBlank \o <<"\n", "answer:">> \o questionWithAnswer
            ELSE IF isClozeQuestion THEN questionWithBlank
            ELSE rawQuestionText,
        rawQuestionText |-> rawQuestionText,
        passageText |-> passageText,
        options |-> options,
        correctAnswer |-> q.answer]

\* question texts of the exam data: markers in half-width and full-width
\* brackets, with spaces, with punctuation, with a leading zero, without
\* brackets, with four digits; a question in words; an empty text
ClozeTexts ==
    {<<"(", "2", ")">>, <<"[", "2", "]">>, <<"(", " ", "2", " ", ")", ".">>,
     <<"(", "0", "2", ")">>, <<"2", ".">>, <<"2">>, <<"(", "1", "2", "3", "4", ")">>,
     <<")", "2", "]">>, <<"x", " ", "(", "2", ")">>, <<"x">>, <<>>}

\* passages of the exam data
ClozePassages ==
    {<<"a", ";", "b", "(", "2", ")", "c", ";", "d", ";">>,
     <<"a", "|", "b", "[", "2", "]", "c", "!", "d">>,
     <<"b", " ", "(", "2", ")", " ", "c">>,
     <<"a", "<br>", " ", "b", "[", "2", "]", "c", "(", "2", ")", "d", "?", "e">>,
     <<"a", ";", "b", "(", "3", ")", "c", ";">>,
     <<"a", ";", "(", "2", ")", "|", "c", ";">>,
     <<>>}

ClozeQuestions ==
    [ques : ClozeTexts, passage : ClozePassages,
     options : {("1" :> <<"x">> @@ "2" :> <<"1", ".", " ", "y">>)},
     answer : {"2", ""}, label : {<<"2">>, <<"Q", "0", "3">>}]

InitCloze ==
    /\ examVersion = 1
    /\ promptVersion = EXPLANATION_PROMPT_VERSION
    /\ apiKey = TRUE
    /\ readingCache = [q \in {0} |-> None]
    /\ explTable = {}
    /\ quotaLog = <<>>
    /\ reqs = [s \in Slots |-> Idle]
    /\ nreq = 0
    /\ wins = {}
    /\ primary = {}
    /\ saves = <<>>
    /\ lastDone = None
    /\ so = None
    /\ proc = None
    /\ norm = None
    /\ cloze = [pc |-> "start", q |-> None, ctx |-> None]
    /\ meta = None
    /\ pg = None

\* a request for the question q
ClozeLoad(q) ==
    /\ cloze.pc = "start"
    /\ cloze' = [pc |-> "loaded", q |-> q, ctx |-> loadClozeContext(q)]
    /\ UNCHANGED <<request, so, proc, norm, meta, pg>>

\* on to the next request
ClozeReset ==
    /\ cloze.pc = "loaded"
    /\ cloze' = [pc |-> "start", q |-> None, ctx |-> None]
    /\ UNCHANGED <<request, so, proc, norm, meta, pg>>

NextCloze ==
    \/ \E q \in ClozeQuestions : ClozeLoad(q)
    \/ ClozeReset

SpecCloze == InitCloze /\ [][NextCloze]_vars

-----------------------------------------------------------------------------
(* SpecMeta: lib/jlptQuestionType.ts, the classifier of a question.  A     *)
(* word or phrase the classifier looks for is one token of the text:       *)
(* "mondai" is the word before a problem-group number, "choukai", "kiku",  *)
(* "onsei", "kaiwa" are the listening words, and so on; a token whose      *)
(* phrase holds another word as a part is listed with that word.           *)

RECURSIVE toNumber(_)
\* Number(digits)
toNumber(ds) ==
    IF ds = <<>> THEN 0
    ELSE 10 * toNumber(SubSeq(ds, 1, Len(ds) - 1))
         + (CHOOSE n \in 0..9 : ToString(n) = ds[Len(ds)])

\* the star is never seen
containsStar_Never(t) == FALSE

containsStar(t) == Includes(t, <<StarChar>>)

\* hasAny(text, keywords)
hasAny(t, keywords) == Range(t) \cap keywords # {}

\* parseMondaiFromTitle: the number after the first "mondai", 0 for none
parseMondaiFromTitle(title) ==
    LET at == IndexOf(title, <<"mondai">>)
        rest == SkipWhile(Drop(title, at + 1), WsChars)
        digits == SubSeq(rest, 1, Len(rest) - Len(SkipWhile(rest, DigitChars)))
    IN IF at < 0 \/ digits = <<>> THEN 0 ELSE toNumber(digits)

\* detectMondaiNumber, 0 standing for null
detectMondaiNumber(input, section, question) ==
    LET fromSectionPattern ==
            IF containsStar(section) THEN 8
            ELSE IF hasAny(section, {"bunshouzentai", "48to51"}) THEN 9
            ELSE IF hasAny(section, {"1kara5"}) THEN 10
            ELSE IF hasAny(section, {"1kara3"}) THEN 11
            ELSE IF hasAny(section, {"AtoB"}) THEN 12
            ELSE IF hasAny(section, {"bunshouwoyonde"}) THEN 13
            ELSE IF hasAny(section, {"miginopeeji", "annaidearu"}) THEN 14
            ELSE IF hasAny(section, {"tsuginobunno"}) THEN 7
            ELSE 0
        n == toNumber(extractDigits(input.questionLabel))
        fromQuestionRange ==
            IF input.level \notin {"N2", "n2"} \/ input.part # 2 THEN 0
            ELSE IF extractDigits(input.questionLabel) = <<>> THEN 0
            ELSE IF n \in 43..47 THEN 8
            ELSE IF n \in 48..51 THEN 9
            ELSE IF n \in 52..56 THEN 10
            ELSE IF n \in 57..64 THEN 11
            ELSE IF n \in 65..66 THEN 12
            ELSE IF n \in 67..69 THEN 13
            ELSE IF n \in 70..71 THEN 14
            ELSE 0
    IN IF parseMondaiFromTitle(section) # 0 THEN parseMondaiFromTitle(section)
       ELSE IF fromSectionPattern # 0 THEN fromSectionPattern
       ELSE IF fromQuestionRange # 0 THEN fromQuestionRange
       ELSE parseMondaiFromTitle(question)

inferByN2Mondai(level, mondaiNumber, fallback) ==
    IF level \notin {"N2", "n2"} \/ mondaiNumber = 0 THEN fallback
    ELSE IF mondaiNumber = 1 THEN "vocab_kanji_reading"
    ELSE IF mondaiNumber = 2 THEN "vocab_kanji_writing"
    ELSE IF mondaiNumber \in 3..6 THEN "vocab_context"
    ELSE IF mondaiNumber = 7 THEN "grammar_choice"
    ELSE IF mondaiNumber = 8 THEN "sentence_order"
    ELSE IF mondaiNumber = 9 THEN "reading_cloze"
    ELSE IF mondaiNumber \in 10..14 THEN "reading_content"
    ELSE fallback

inferByHeuristic(input, section, question) ==
    LET lengths == [i \in 1..Len(input.optionTexts) |-> Len(Trim(input.optionTexts[i]))]
        sum == IF lengths = <<>> THEN 0
               ELSE Len(Concat([i \in 1..Len(lengths) |->
                                   [j \in 1..lengths[i] |-> "c"]]))
    IN IF input.isClozeQuestion /\ input.hasPassage THEN "reading_cloze"
       ELSE IF input.hasPassage
               \/ hasAny(section, {"yonde", "bunshou", "honbun",
                                   "bunshouzentai", "bunshouwoyonde"})
       THEN "reading_content"
       ELSE IF hasAny(section, {"yomikata", "yomu"}) \/ hasAny(question, {"yomikata"})
       THEN "vocab_kanji_reading"
       ELSE IF hasAny(section, {"bunpou", "hyougen", "tsukaikata"}) THEN "grammar_choice"
       ELSE IF hasAny(section, {"imi", "chikai", "kotoba"}) THEN "vocab_context"
       ELSE IF sum > 0 /\ sum <= 8 * Len(lengths) /\ Len(lengths) >= 3 THEN "sentence_order"
       ELSE IF input.part = 3 THEN "listening" ELSE "unknown"

inferJlptQuestionMeta(input) ==
    LET section == normalizeWhitespaceLine(input.sectionTitle)
        question == normalizeWhitespaceLine(input.questionText)
        mondaiNumber == detectMondaiNumber(input, section, question)
    IN [mondaiNumber |-> mondaiNumber,
        questionType |->
            IF containsStar(section) \/ containsStar(question) THEN "sentence_order"
            ELSE IF input.part = 3 \/ hasAny(section, {"choukai", "kiku", "onsei", "kaiwa"})
            THEN "listening"
            ELSE inferByN2Mondai(input.level, mondaiNumber,
                                 inferByHeuristic(input, section, question))]

\* the inputs of the classifier: levels, the three parts of an exam,
\* section titles and question texts with and without the star, a problem
\* number or a word the classifier looks for, options short and long
MetaInputs ==
    [level : {"N2", "n2", "N3"},
     part : {1, 2, 3},
     sectionTitle : {<<>>, <<"x", " ", StarChar>>, <<"mondai", "8">>,
                     <<"mondai", " ", "1", " ", "yomikata">>, <<"mondai", "2", "0">>,
                     <<"choukai">>, <<"bunpou">>, <<"bunshouzentai">>},
     questionLabel : {<<"4", "5">>, <<"Q", "0", "1">>},
     questionText : {<<"x">>, <<"a", " ", StarChar, " ", "b">>, <<"yomikata">>},
     optionTexts : {<<>>, << <<"a">>, <<"b", "c">>, <<" ", "d">> >>,
                    << <<"a", "b", "c", "d", "e", "f", "g", "h", "i", "j">>,
                       <<"a", "b", "c", "d", "e", "f", "g", "h", "i">>,
                       <<"a", "b", "c", "d", "e", "f", "g", "h", "i">> >>},
     hasPassage : BOOLEAN,
     isClozeQuestion : BOOLEAN]

InitMeta ==
    /\ examVersion = 1
    /\ promptVersion = EXPLANATION_PROMPT_VERSION
    /\ apiKey = TRUE
    /\ readingCache = [q \in {0} |-> None]
    /\ explTable = {}
    /\ quotaLog = <<>>
    /\ reqs = [s \in Slots |-> Idle]
    /\ nreq = 0
    /\ wins = {}
    /\ primary = {}
    /\ saves = <<>>
    /\ lastDone = None
    /\ so = None
    /\ proc = None
    /\ norm = None
    /\ cloze = None
    /\ meta = [pc |-> "start", input |-> None, out |-> None]
    /\ pg = None

\* inferJlptQuestionMeta(input)
MetaInfer(input) ==
    /\ meta.pc = "start"
    /\ meta' = [pc |-> "done", input |-> input, out |-> inferJlptQuestionMeta(input)]
    /\ UNCHANGED <<request, so, proc, norm, cloze, pg>>

\* on to the next question
MetaReset ==
    /\ meta.pc = "done"
    /\ meta' = [pc |-> "start", input |-> None, out |-> None]
    /\ UNCHANGED <<request, so, proc, norm, cloze, pg>>

NextMeta ==
    \/ \E input \in MetaInputs : MetaInfer(input)
    \/ MetaReset

SpecMeta == InitMeta /\ [][NextMeta]_vars

-----------------------------------------------------------------------------
(* SpecPassage: /passage-explanation requests one after another, with the  *)
(* questionIndexes of the request body as the client sends them, and       *)
(* generatePassageExplanation with its fill call.                          *)

MaxPassageRequests == 2

\* the values of questionIndexes in a request body are written as JSON text:
\* numbers, "s1" and "sx" for the strings "1" and "x", null.
\* Number(value) when it is an integer, else None
NumberOf(v) ==
    CASE v \in {"0", "null"} -> [int |-> 0]
      [] v \in {"1", "s1"} -> [int |-> 1]
      [] v = "2" -> [int |-> 2]
      [] v = "-1" -> [int |-> -1]
      [] OTHER -> None

RECURSIVE SortInts(_)
\* the numbers of a set in ascending order
SortInts(S) ==
    IF S = {} THEN <<>>
    ELSE LET m == CHOOSE k \in S : \A j \in S : k <= j
         IN <<m>> \o SortInts(S \ {m})

\* the indexes as they come, not sorted and with their duplicates
normalizeIndexes_AsSent(values) ==
    LET kept == SelectSeq(values, LAMBDA v : NumberOf(v) # None /\ NumberOf(v).int >= 0)
    IN [i \in 1..Len(kept) |-> NumberOf(kept[i]).int]

\* Array.from(new Set(values.map(Number).filter(...))).sort((a, b) => a - b)
normalizeIndexes(values) ==
    SortInts({NumberOf(values[i]).int :
                 i \in {j \in 1..Len(values) :
                           NumberOf(values[j]) # None /\ NumberOf(values[j]).int >= 0}})

\* the section of the exam data has two questions, at the indexes 0 and 1
PassageQuestion(i) ==
    IF i = 0
    THEN [ques |-> <<"x">>, options |-> ("1" :> <<"a">> @@ "2" :> <<"b">>),
          answer |-> "2", explDigits |-> <<>>, kind |-> "reading_content"]
    ELSE [ques |-> <<"y">>, options |-> ("1" :> <<"c">> @@ "2" :> <<"d">>),
          answer |-> "", explDigits |-> <<>>, kind |-> "reading_content"]

\* the context of the question at index i with its label, the index plus one
passageContext(i) ==
    [questionLabel |-> IF i = 0 THEN "1" ELSE "2",
     context |-> loadQuestionContext(PassageQuestion(i))]

\* normalizeOptionAnalysis(value, question); value: the items of the model,
\* [option, meaning_vi, verdict, reason_vi] or None
normalizeOptionAnalysis(value, question) ==
    LET list == objectsOf(value)
        fromModel == {normalizeOptionKey(list[i].option) : i \in 1..Len(list)} \ {""}
        keys == allKeys(fromModel, question.options)
        entry(k) ==
            LET item == LastItemFor(list, k)
            IN IF item # None
               THEN [option |-> k, meaning_vi |-> text(item.meaning_vi),
                     verdict |-> IF item.verdict = "correct" THEN "correct" ELSE "wrong",
                     reason_vi |-> text(item.reason_vi)]
               ELSE [option |-> k, meaning_vi |-> <<>>,
                     verdict |-> IF k = question.correctAnswer THEN "correct" ELSE "wrong",
                     reason_vi |-> <<>>]
    IN [i \in 1..Len(keys) |->
           [entry(keys[i]) EXCEPT
               !.verdict = forcedVerdict(@, keys[i], question.correctAnswer)]]

\* normalizePassageExplanation: the questions of the explanation, one for
\* each question of the payload; raw is None or [questions |-> items], an
\* item None or [question_label, correct_option, option_analysis]
normalizePassageExplanation(raw, contexts) ==
    LET items == objectsOf(arrayField(raw, "questions"))
        itemFor(label) ==
            LET idx == {i \in 1..Len(items) : items[i].question_label = label}
            IN IF label = "" \/ idx = {} THEN None
               ELSE items[CHOOSE i \in idx : \A j \in idx : j <= i]
        question(c) ==
            LET existing == itemFor(c.questionLabel)
            IN IF existing = None
               THEN [question_label |-> c.questionLabel,
                     correct_option |-> c.context.correctAnswer,
                     option_analysis |-> normalizeOptionAnalysis(<<>>, c.context)]
               ELSE [question_label |-> c.questionLabel,
                     correct_option |-> IF c.context.correctAnswer # ""
                                        THEN c.context.correctAnswer
                                        ELSE existing.correct_option,
                     option_analysis |->
                         normalizeOptionAnalysis(
                             normalizeOptionAnalysis(existing.option_analysis, c.context),
                             c.context)]
    IN [questions |-> [i \in 1..Len(contexts) |-> question(contexts[i])]]

\* the questions the fill call is made for
missingQuestions(explanation) ==
    {explanation.questions[i].question_label : i \in
        {j \in 1..Len(explanation.questions) :
            \E k \in 1..Len(explanation.questions[j].option_analysis) :
               \/ text(explanation.questions[j].option_analysis[k].meaning_vi) = <<>>
               \/ text(explanation.questions[j].option_analysis[k].reason_vi) = <<>>}}

\* a fallback that leaves the reasons as they are
applyOptionFallback_Keep(question) == question

\* the fixed sentences of applyOptionFallback are the tokens "fits" and
\* "does not fit"
applyOptionFallback(question) ==
    [question EXCEPT !.option_analysis =
        [i \in 1..Len(question.option_analysis) |->
            [question.option_analysis[i] EXCEPT
                !.reason_vi =
                    Or(@, IF normalizeOptionKey(question.option_analysis[i].option)
                             = normalizeOptionKey(question.correct_option)
                          THEN <<"fits">> ELSE <<"does not fit">>)]]]

forceFallbackPassageOptionContent(explanation) ==
    [questions |-> [i \in 1..Len(explanation.questions) |->
                       applyOptionFallback(explanation.questions[i])]]

\* raw: the parsed reply of the fill call, None or [questions |-> items], an
\* item None or [question_label, options], an option None or
\* [option, meaning_vi, reason_vi]
mergePassageOptionContent(explanation, raw) ==
    LET items == SelectSeq(objectsOf(arrayField(raw, "questions")),
                           LAMBDA item : item.question_label # "")
        optionMapFor(label) ==
            LET idx == {i \in 1..Len(items) : items[i].question_label = label}
            IN IF idx = {} THEN None
               ELSE objectsOf(items[CHOOSE i \in idx : \A j \in idx : j <= i].options)
        merged(question) ==
            LET optionMap == optionMapFor(question.question_label)
                filled(item) == LastItemFor(optionMap, normalizeOptionKey(item.option))
            IN IF optionMap = None THEN applyOptionFallback(question)
               ELSE applyOptionFallback(
                      [question EXCEPT !.option_analysis =
                          [i \in 1..Len(question.option_analysis) |->
                              LET item == question.option_analysis[i]
                              IN IF filled(item) = None THEN item
                                 ELSE [item EXCEPT
                                         !.meaning_vi = Or(@, text(filled(item).meaning_vi)),
                                         !.reason_vi = Or(@, text(filled(item).reason_vi))]]])
    IN [questions |-> [i \in 1..Len(explanation.questions) |->
                          merged(explanation.questions[i])]]

\* fillMissingPassageOptionContent once the fill call has returned outcome:
\* [error |-> f] for a failure f of the call, else the parsed reply
fillMissingPassageOptionContent(explanation, outcome) ==
    IF isFailure(outcome) THEN forceFallbackPassageOptionContent(explanation)
    ELSE mergePassageOptionContent(explanation, outcome)

\* questionIndexes of the request bodies
PassageIndexLists ==
    {<<>>, <<"0">>, <<"null">>, <<"0", "1">>, <<"1", "0">>, <<"s1", "0", "1", "-1">>,
     <<"1.5", "sx">>, <<"2">>}

passageItem(option, meaning, reason) ==
    [option |-> option, meaning_vi |-> meaning, verdict |-> "correct", reason_vi |-> reason]

\* parsed replies of the primary call: no object; every option of every
\* question with meaning and reason; a reason left out; a blank meaning
PassagePrimaryReplies ==
    {None,
     [questions |->
         <<[question_label |-> "1", correct_option |-> "2",
            option_analysis |-> <<passageItem("1", <<"m">>, <<"r">>),
                                  passageItem("F2", <<"m">>, <<"r">>)>>],
           [question_label |-> "2", correct_option |-> "1",
            option_analysis |-> <<passageItem("1", <<"m">>, <<"r">>),
                                  passageItem("2", <<"m">>, <<"r">>)>>]>>],
     [questions |->
         <<None,
           [question_label |-> "1", correct_option |-> "2",
            option_analysis |-> <<passageItem("1", <<"m">>, <<"r">>),
                                  passageItem("2", <<"m">>, <<>>)>>],
           [question_label |-> "2", correct_option |-> "1",
            option_analysis |-> <<passageItem("1", <<" ">>, <<"r">>),
                                  passageItem("2", <<"m">>, <<"r">>)>>]>>]}

\* outcomes of the fill call
PassageFillOutcomes ==
    {[error |-> f] : f \in CallFailures} \cup
    {None,
     [questions |->
         <<None,
           [question_label |-> "1",
            options |-> <<None,
                          [option |-> "1", meaning_vi |-> <<"n">>, reason_vi |-> <<"s">>],
                          [option |-> "F2", meaning_vi |-> <<>>, reason_vi |-> <<" ">>]>>]>>],
     [questions |->
         <<[question_label |-> "2",
            options |-> <<[option |-> "1", meaning_vi |-> <<"n">>, reason_vi |-> <<"s">>],
                          [option |-> "2", meaning_vi |-> <<"n">>, reason_vi |-> <<"s">>]>>]>>]}

PassageIdle ==
    [pc |-> "idle", user |-> "", raw |-> <<>>, force |-> FALSE, indexes |-> <<>>,
     contexts |-> <<>>, hash |-> None, normalized |-> None, outcome |-> None,
     explanation |-> None, status |-> 0, source |-> "", calls |-> 0]

InitPassage ==
    /\ examVersion = 1
    /\ promptVersion = EXPLANATION_PROMPT_VERSION
    /\ apiKey \in BOOLEAN
    /\ readingCache = [q \in {0} |-> None]
    /\ explTable = {}
    /\ quotaLog = <<>>
    /\ reqs = [s \in Slots |-> Idle]
    /\ nreq = 0
    /\ wins = {}
    /\ primary = {}
    /\ saves = <<>>
    /\ lastDone = None
    /\ so = None
    /\ proc = None
    /\ norm = None
    /\ cloze = None
    /\ meta = None
    /\ pg = [req |-> PassageIdle, n |-> 0, table |-> {}, quota |-> <<>>, log |-> {}]

passageKey(hash) == <<"passage", hash, EXPLANATION_PROMPT_VERSION>>

passageAnswer(r, status, source, explanation) ==
    [r EXCEPT !.pc = "done", !.status = status, !.source = source,
              !.explanation = explanation]

\* the handler from the validation of the body to the quota gate
PassageStart(user, raw, force) ==
    LET questionIndexes == normalizeIndexes(raw)
        r0 == [PassageIdle EXCEPT !.user = user, !.raw = raw, !.force = force,
                                  !.indexes = questionIndexes]
        contexts == [i \in 1..Len(questionIndexes) |-> passageContext(questionIndexes[i])]
        hash == groupHash(questionIndexes, contexts)
        r1 == [r0 EXCEPT !.contexts = contexts, !.hash = hash]
        rows == {row \in pg.table : row.key = passageKey(hash)}
        cached == IF rows = {} THEN None ELSE CHOOSE row \in rows : TRUE
        key == <<user, passageKey(hash)>>
        loaded == /\ raw # <<>> /\ questionIndexes # <<>>
                  /\ requireExamAccess(user) = 0
                  /\ ~refusesRefresh(force, user)
                  /\ \A i \in 1..Len(questionIndexes) : questionIndexes[i] \in {0, 1}
        gated == loaded /\ (force \/ cached = None) /\ ~isAdmin(user)
    IN /\ pg.req.pc \in {"idle", "done"}
       /\ pg.n < MaxPassageRequests
       /\ pg' = [pg EXCEPT
            !.n = @ + 1,
            !.log = IF loaded
                    THEN @ \cup {[raw |-> raw, hash |-> hash, user |-> user]} ELSE @,
            !.quota = IF gated THEN insertIfAbsent(@, key) ELSE @,
            !.req =
               IF raw = <<>> \/ questionIndexes = <<>> THEN passageAnswer(r0, 400, "", None)
               ELSE IF requireExamAccess(user) # 0
               THEN passageAnswer(r0, requireExamAccess(user), "", None)
               ELSE IF refusesRefresh(force, user) THEN passageAnswer(r0, 403, "", None)
               ELSE IF ~loaded THEN passageAnswer(r0, 404, "", None)
               ELSE IF ~force /\ cached # None
               THEN passageAnswer(r1, 200, "cache", cached.explanation)
               ELSE IF gated /\ insertAffected(pg.quota, key) = 0
               THEN IF cached # None
                    THEN passageAnswer(r1, 200, "cache", cached.explanation)
                    ELSE passageAnswer(r1, 429, "", None)
               ELSE [r1 EXCEPT !.pc = "generate"]]
    /\ UNCHANGED <<request, so, proc, norm, cloze, meta>>

\* the row of saveCachedPassageExplanation and the answer
passageSaved(r, explanation) ==
    [pg EXCEPT !.table = upsertExplanation(@, passageKey(r.hash), explanation),
               !.req = passageAnswer(r, 200, "openai", explanation)]

\* generatePassageExplanation up to the fill call
PassagePrimary ==
    LET r == pg.req
        r0 == [r EXCEPT !.calls = @ + 1]
    IN /\ r.pc = "generate"
       /\ IF ~apiKey THEN pg' = [pg EXCEPT !.req = passageAnswer(r, 500, "", None)]
          ELSE \/ \E f \in CallFailures :
                    pg' = [pg EXCEPT !.req = passageAnswer(r0, failureStatus(f), "", None)]
               \/ \E raw \in PassagePrimaryReplies :
                    LET normalized == normalizePassageExplanation(raw, r.contexts)
                    IN pg' = IF missingQuestions(normalized) # {}
                             THEN [pg EXCEPT !.req = [r0 EXCEPT !.pc = "fill",
                                                               !.normalized = normalized]]
                             ELSE passageSaved([r0 EXCEPT !.normalized = normalized],
                                               normalized)
       /\ UNCHANGED <<request, so, proc, norm, cloze, meta>>

\* the fill call, the rest of the generation, the save and the answer
PassageFillCall ==
    LET r == pg.req
    IN /\ r.pc = "fill"
       /\ \E outcome \in PassageFillOutcomes :
            pg' = passageSaved([r EXCEPT !.calls = @ + 1, !.outcome = outcome],
                               fillMissingPassageOptionContent(r.normalized, outcome))
       /\ UNCHANGED <<request, so, proc, norm, cloze, meta>>

NextPassage ==
    \/ \E user \in {"u1", "u2", "adm"}, raw \in PassageIndexLists, force \in BOOLEAN :
          PassageStart(user, raw, force)
    \/ PassagePrimary
    \/ PassageFillCall

SpecPassage == InitPassage /\ [][NextPassage]_vars

-----------------------------------------------------------------------------
(* The claims.                                                             *)

\* the generation for a quota key (user, coordinate or group, prompt
\* version) has succeeded: its result was saved
succeeded(quota) == \E i \in 1..Len(saves) : saves[i].quota = quota

\* C1 (quota exactly-once): a non-privileged user is answered 429 for a
\* question only after a generation for the same (user, coordinate, prompt
\* version) has succeeded, or while one is under way; a user whose
\* generation never succeeded, the first call having failed after its quota
\* row was inserted, is never answered 429.
C1_QuotaExactlyOnce ==
    \A s \in Slots :
        (reqs[s].pc = "done" /\ reqs[s].kind = "question" /\ reqs[s].status = 429)
            => \/ succeeded(quotaKey(reqs[s]))
               \/ \E o \in Others(s) : /\ inFlight(reqs[o])
                                        /\ reqs[o].kind = "question"
                                        /\ quotaKey(reqs[o]) = quotaKey(reqs[s])

\* C2 (cache coherence): when a question request without forceRefresh has
\* succeeded, the next request without forceRefresh for that coordinate, the
\* exam data and the build unchanged and no other request in between, is
\* answered from the cache with the very explanation the first one got, and
\* calls no model.
C2_CacheCoherence ==
    \A s \in Slots :
        (reqs[s].pc = "done" /\ reqs[s].prev # None)
            => /\ reqs[s].status = 200
               /\ reqs[s].source = "cache"
               /\ reqs[s].calls = 0
               /\ reqs[s].explanation = reqs[s].prev.explanation

\* C3 (one quota winner): for each (non-privileged user, coordinate or
\* group, prompt version) at most one request's quota insert affects a row,
\* at most one request of that user makes the primary model call, and every
\* primary call for a non-privileged user follows, in the same request, a
\* quota insert that affected one row.
C3_OneQuotaWinner ==
    /\ \A w1, w2 \in wins : w1.key = w2.key => w1.req = w2.req
    /\ \A p1, p2 \in primary :
           (~isAdmin(p1.user) /\ p1.key = p2.key) => p1.req = p2.req
    /\ \A p \in primary :
           ~isAdmin(p.user) => \E w \in wins : w.req = p.req /\ w.key = p.key

\* two requests of one non-privileged user for one key: one has made the
\* primary call, the other lost the insert
C3_Witness ==
    \E s \in Slots : \E o \in Others(s) :
        /\ reqs[s].user \in NonAdmins
        /\ reqs[o].user = reqs[s].user
        /\ reqs[o].kind = reqs[s].kind
        /\ "model" \in reqs[s].ops
        /\ "recheck" \in reqs[o].ops

\* a well-formed request of a non-privileged account that asks for a
\* forced refresh
forcedByNonAdmin(r) == r.force /\ r.user \in NonAdmins /\ r.qidx >= 0

\* C4 (forced-refresh authorization): a request with forceRefresh from a
\* non-privileged caller is answered 403 before any context load, reading
\* cache access, explanation cache lookup, quota insert or model call, and
\* leaves the explanation cache, the reading cache and the quota log as
\* they were.
C4_ForcedRefreshForbidden ==
    [][\A s \in Slots :
         forcedByNonAdmin(reqs'[s])
            => /\ reqs'[s].pc = "done"
               /\ reqs'[s].status = 403
               /\ reqs'[s].ops = {}
               /\ reqs'[s].calls = 0
               /\ reqs'[s] # reqs[s] => UNCHANGED store]_vars

\* an account with exam access was refused the refresh while the tables
\* held rows
C4_Witness ==
    \E s \in Slots :
        /\ forcedByNonAdmin(reqs[s])
        /\ reqs[s].user \in ExamEnabled
        /\ reqs[s].status = 403
        /\ explTable # {}
        /\ quotaLog # <<>>

\* C5 (quota conflict): a quota insert that affects no row sends the
\* request to a second lookup of the same key; an entry found there is
\* answered as source 'cache', and without one the answer is 429, with no
\* model call made and no cache entry written.
C5_ConflictRechecks ==
    [][\A s \in Slots :
         /\ (reqs[s].pc = "quota" /\ reqs'[s] # reqs[s] /\ quotaLog' = quotaLog)
               => reqs'[s].pc = "recheck"
         /\ (reqs[s].pc = "recheck" /\ reqs'[s] # reqs[s])
               => /\ reqs'[s].pc = "done"
                  /\ reqs'[s].lookedUp = reqs[s].lookedUp
                  /\ reqs'[s].calls = 0
                  /\ "save" \notin reqs'[s].ops
                  /\ explTable' = explTable
                  /\ primary' = primary
                  /\ IF \E row \in explTable : row.key = reqs[s].lookedUp
                     THEN /\ reqs'[s].status = 200
                          /\ reqs'[s].source = "cache"
                          /\ reqs'[s].explanation =
                                 served(reqs[s], findCached(reqs[s].lookedUp))
                     ELSE reqs'[s].status = 429]_vars

\* a request lost the quota insert to a request that saved its explanation
\* before the second lookup, and was answered from the cache
C5_Witness ==
    \E s \in Slots : \E o \in Others(s) :
        /\ "recheck" \in reqs[s].ops
        /\ reqs[s].source = "cache"
        /\ reqs[o].source = "openai"
        /\ reqs[o].user = reqs[s].user

\* C6 (quota only after a miss): every quota row was inserted by a request
\* of a non-privileged caller whose first lookup missed; a request served
\* at its first lookup and a request of a privileged caller, with or without
\* forceRefresh, insert none.
C6_QuotaOnlyAfterMiss ==
    /\ DOMAIN quotaLog = {w.key : w \in wins}
    /\ \A w \in wins : ~isAdmin(w.user) /\ w.missed /\ ~w.force
    /\ \A s \in Slots :
           (\/ isAdmin(reqs[s].user)
            \/ (reqs[s].source = "cache" /\ "recheck" \notin reqs[s].ops))
               => /\ "quota" \notin reqs[s].ops
                  /\ \A w \in wins : w.req # reqs[s].id

\* a privileged request has generated and a non-privileged one was served
\* at its first lookup, the quota log still empty
C6_Witness ==
    \E s \in Slots : \E o \in Others(s) :
        /\ isAdmin(reqs[s].user) /\ reqs[s].source = "openai"
        /\ reqs[o].user \in NonAdmins /\ reqs[o].source = "cache"
        /\ quotaLog = <<>>

IsPermutation(ordered, keys) ==
    Len(ordered) = Cardinality(keys) /\ Range(ordered) = keys

\* every fragment occurs in the sentence and the first occurrences follow
\* one another in the order of ordered
FirstOccurrencesInOrder(sentence, ordered, options) ==
    /\ \A i \in 1..Len(ordered) :
           /\ ordered[i] \in DOMAIN options
           /\ IndexOf(sentence, options[ordered[i]]) >= 0
    /\ \A i, j \in 1..Len(ordered) :
           i < j => IndexOf(sentence, options[ordered[i]])
                       < IndexOf(sentence, options[ordered[j]])

SolutionInOrder(explanation, ctx) ==
    /\ explanation.sentence_order_solution # None
    /\ IsPermutation(explanation.sentence_order_solution.ordered_options,
                     DOMAIN ctx.options)
    /\ FirstOccurrencesInOrder(explanation.sentence_order_solution.ordered_sentence_ja,
                               explanation.sentence_order_solution.ordered_options,
                               ctx.options)

\* C7 (permutation invariant): whatever the primary and the repair call
\* return for a sentence_order question, the explanation that is saved and
\* returned, and the one a later cache hit returns, has ordered_options that
\* is a permutation of the question's option keys and an ordered_sentence_ja
\* that holds every option's text, the first occurrences in the order of
\* ordered_options.
C7_PermutationInvariant ==
    /\ so.pc \in {"saved", "served"} => SolutionInOrder(so.saved, so.ctx)
    /\ so.pc = "served" => SolutionInOrder(so.served, so.ctx)

\* C8 as stated (same key, same content): the content stored under a key
\* never changes once the entry exists.
C8_SameContentForever ==
    [][\A row \in explTable : \A row2 \in explTable' :
          row2.key = row.key => row2.explanation = row.explanation]_vars

\* C8 as the code has it: an entry, once it exists, is never removed, and
\* its content is replaced only by the save of a request that generated for
\* its key: a privileged request with forceRefresh, or a request whose own
\* lookup of the key had missed. A request served from the cache changes
\* nothing, and a lookup returns what the last such save stored.
C8_ContentChangesOnlyBySave ==
    [][\A row \in explTable :
          /\ \E row2 \in explTable' : row2.key = row.key
          /\ row \notin explTable'
                => \E s \in Slots :
                      /\ reqs[s].pc = "save" /\ reqs'[s].pc = "done"
                      /\ reqs'[s].source = "openai"
                      /\ explKey(reqs[s]) = row.key
                      /\ findCached(row.key)' =
                             [key |-> row.key, explanation |-> reqs[s].gen]
                      /\ \/ reqs[s].force /\ isAdmin(reqs[s].user)
                         \/ ~reqs[s].force /\ reqs[s].lookedUp = row.key]_vars

\* a forced refresh by the administrator has replaced the content of an entry
C8_Witness ==
    /\ Len(saves) = 2
    /\ saves[1].key = saves[2].key
    /\ saves[1].explanation # saves[2].explanation
    /\ \E s \in Slots : reqs[s].id = saves[2].req /\ reqs[s].force
    /\ explTable = {[key |-> saves[2].key, explanation |-> saves[2].explanation]}

\* a save step of the request in slot s
saving(s) == reqs[s].pc = "save" /\ reqs'[s].pc = "done"

\* save i was made for the same coordinate or group as request r, before a
\* change of the question's content, of an option's text or of the prompt
\* version
changedSince(i, r) ==
    /\ saves[i].kind = r.kind
    /\ saves[i].ctx # r.ctx \/ saves[i].pv # r.pv

\* C9 (a change makes a new key): no step removes an entry, so the set of
\* cached keys only grows; a request that generates after a change of the
\* question's content, of an option's text or of the prompt version saves
\* under a key other than the one saved under before the change, its entry
\* is in the cache after the save, and the entry under the old key is as it
\* was.
C9_ChangeMakesNewKey ==
    [][/\ \A row \in explTable : \E row2 \in explTable' : row2.key = row.key
       /\ \A s \in Slots : saving(s) =>
             \A i \in 1..Len(saves) : changedSince(i, reqs[s]) =>
                 /\ saves[i].key # explKey(reqs[s])
                 /\ [key |-> explKey(reqs[s]), explanation |-> reqs[s].gen] \in explTable'
                 /\ \A row \in explTable : row.key = saves[i].key => row \in explTable']_vars

\* the question was edited between two generations for one coordinate under
\* one prompt version: the cache holds the old entry, as saved, and the new
C9_Witness ==
    /\ Len(saves) = 2
    /\ saves[1].kind = "question" /\ saves[2].kind = "question"
    /\ saves[1].pv = saves[2].pv
    /\ saves[1].ctx # saves[2].ctx
    /\ explTable = {[key |-> saves[i].key, explanation |-> saves[i].explanation] :
                       i \in {1, 2}}
    /\ Cardinality(explTable) = 2

\* the last save made under key, 0 when there is none
lastSave(saved, key) ==
    LET made == {i \in 1..Len(saved) : saved[i].key = key}
    IN IF made = {} THEN 0 ELSE CHOOSE i \in made : \A j \in made : j <= i

\* C10 (one entry per key, last writer wins): the cache never holds two
\* entries with one key; a save writes the generated explanation under
\* the key the request looked up; and an entry holds the content of the
\* last save made under its key, so of two requests that generate for one
\* key at the same time both save and the later save stays.
C10_LastWriterWins ==
    [][/\ \A a, b \in explTable' : a.key = b.key => a = b
       /\ \A s \in Slots : saving(s) =>
             /\ reqs[s].lookedUp # None => reqs[s].lookedUp = explKey(reqs[s])
             /\ [key |-> IF reqs[s].lookedUp # None THEN reqs[s].lookedUp
                         ELSE explKey(reqs[s]),
                 explanation |-> reqs[s].gen] \in explTable'
             /\ Len(saves') = Len(saves) + 1
       /\ \A row \in explTable' :
             /\ lastSave(saves', row.key) > 0
             /\ row.explanation = saves'[lastSave(saves', row.key)].explanation]_vars

\* two requests without forceRefresh both missed one key, both generated
\* and both saved, with different explanations: the cache holds the second
C10_Witness ==
    /\ Len(saves) = 2
    /\ saves[1].key = saves[2].key
    /\ saves[1].explanation # saves[2].explanation
    /\ \A s \in Slots : /\ ~reqs[s].force
                        /\ reqs[s].lookedUp = saves[2].key
                        /\ reqs[s].source = "openai"
    /\ explTable = {[key |-> saves[2].key, explanation |-> saves[2].explanation]}

\* C11 (quota log): the quota log holds at most one row per (user,
\* coordinate or group, prompt version); an insert for a key that has its
\* row changes nothing, reports no row and sends the request to the second
\* lookup; and no step, a failed generation and a forced refresh of the
\* administrator included, changes or removes a row.
C11_QuotaRowsStay ==
    [][/\ \A k \in DOMAIN quotaLog' : quotaLog'[k] = 1
       /\ \A k \in DOMAIN quotaLog : k \in DOMAIN quotaLog' /\ quotaLog'[k] = quotaLog[k]
       /\ \A s \in Slots :
             (/\ reqs[s].pc = "quota" /\ reqs'[s] # reqs[s]
              /\ quotaKey(reqs[s]) \in DOMAIN quotaLog)
                => /\ quotaLog' = quotaLog
                   /\ wins' = wins
                   /\ reqs'[s].pc = "recheck"]_vars

\* a request's generation failed after its quota insert, and the same
\* user's next request has attempted the insert again: the row is there, once
C11_Witness ==
    \E s \in Slots : \E o \in Others(s) :
        /\ reqs[s].pc = "recheck"
        /\ quotaLog[quotaKey(reqs[s])] = 1
        /\ reqs[o].pc = "done" /\ reqs[o].status \in {500, 502}
        /\ "quota" \in reqs[o].ops
        /\ quotaKey(reqs[o]) = quotaKey(reqs[s])

\* C12 (reading cache entries stay): a reading cache entry is created by
\* the first request that finds none, and no explain request, none of which
\* passes force, changes an entry that exists, however the concurrent
\* getOrCreateQuestionReadingCache calls for the coordinate interleave.
C12_ReadingEntryStays ==
    [][\A q \in DOMAIN readingCache :
          readingCache[q] # None => readingCache'[q] = readingCache[q]]_vars

\* the runs of guard g that have neither succeeded nor been rejected
inFlightRuns(runs, g) ==
    {i \in 1..Len(runs[g]) : runs[g][i] \in {"pending", "failed"}}

\* one step keeps the initialisation behind guard g once-only: at most one
\* run is in flight; a run is started only when every earlier run has been
\* rejected; the callers that wait for a run not yet rejected wait for one
\* and the same run; a caller
\* whose wait ends gets the value of the run it awaited when that run
\* succeeded and its error when it failed; and every value handed out is the
\* value of one run
onceOnly(g) ==
    /\ Cardinality(inFlightRuns(proc'.runs, g)) <= 1
    /\ Len(proc'.runs[g]) > Len(proc.runs[g])
          => \A i \in 1..Len(proc.runs[g]) : proc.runs[g][i] = "rejected"
    /\ \A c, d \in Clients :
          (/\ proc'.waits[c].pc = "await" /\ proc'.waits[c].guard = g
           /\ proc'.waits[d].pc = "await" /\ proc'.waits[d].guard = g
           /\ proc'.runs[g][proc'.waits[c].run] # "rejected"
           /\ proc'.runs[g][proc'.waits[d].run] # "rejected")
             => proc'.waits[c].run = proc'.waits[d].run
    /\ \A c \in Clients :
          (/\ proc.waits[c].pc = "await" /\ proc.waits[c].guard = g
           /\ proc'.waits[c].pc = "idle")
             => [client |-> c, guard |-> g, run |-> proc.waits[c].run,
                 ok |-> proc.runs[g][proc.waits[c].run] = "fulfilled"] \in proc'.outcomes
    /\ \A a, b \in proc'.outcomes :
          (a.guard = g /\ b.guard = g /\ a.ok /\ b.ok) => a.run = b.run
    /\ \A a \in proc'.outcomes :
          a.guard = g => proc'.runs[g][a.run] = IF a.ok THEN "fulfilled" ELSE "rejected"

\* C13 (tokenizer built once): while a build of the tokenizer is in flight
\* or after one has succeeded no build is started; the callers of
\* toReadingHiragana and toRubyHtml that arrive during a build await that
\* build and get the one tokenizer; a build is started again only after the
\* build before it failed, and every caller that awaited the failed build
\* gets its error.
C13_TokenizerBuiltOnce == [][onceOnly("tokenizer")]_vars

\* both callers awaited the first build and got its error; a second build
\* succeeded and both got its tokenizer
C13_Witness ==
    /\ proc.runs["tokenizer"] = <<"rejected", "fulfilled">>
    /\ \A c \in Clients : \A i \in {1, 2} :
          [client |-> c, guard |-> "tokenizer", run |-> i, ok |-> i = 2] \in proc.outcomes

\* C14 (ensure-schema runs once): each of the two ensure operations runs
\* its DDL at most once while a run is in flight or after one has succeeded,
\* the concurrent callers sharing the run; when a run fails every caller
\* that awaited it gets the error, the handler clears the guard, and the
\* next call runs the DDL again.
C14_EnsureSchemaOnce ==
    [][\A g \in {"explainTable", "readingTable"} :
          /\ onceOnly(g)
          /\ (\E i \in 1..Len(proc.runs[g]) :
                 proc.runs[g][i] = "failed" /\ proc'.runs[g][i] = "rejected")
                => proc'.promise[g] = 0
          /\ (\E c \in Clients :
                 /\ proc.waits[c].pc = "idle"
                 /\ proc'.waits[c].pc = "await" /\ proc'.waits[c].guard = g
                 /\ proc.runs[g] # <<>>
                 /\ \A i \in 1..Len(proc.runs[g]) : proc.runs[g][i] = "rejected")
                => /\ Len(proc'.runs[g]) = Len(proc.runs[g]) + 1
                   /\ proc'.runs[g][Len(proc'.runs[g])] = "pending"]_vars

\* the DDL of the explanation tables failed once, the caller that awaited
\* it got the error, and a later call ran it again and succeeded
C14_Witness ==
    /\ proc.runs["explainTable"] = <<"rejected", "fulfilled">>
    /\ \E c \in Clients :
          /\ [client |-> c, guard |-> "explainTable", run |-> 1, ok |-> FALSE] \in proc.outcomes
          /\ [client |-> c, guard |-> "explainTable", run |-> 2, ok |-> TRUE] \in proc.outcomes

\* the order a request's primary reply leaves after the merge with the
\* exam's own order and the order read off the sentence
mergedOrderOf(r, raw) ==
    mergedSolution(r.ctx,
                   normalizeExplanation(raw, r.ctx, precomputedReadingsOf(r.ctx, r.rc))
                       .sentence_order_solution).ordered_options

\* what one step of generateExamQuestionExplanation does to the request in
\* slot s, primaryCalls being the number of primary calls the invocation
\* has issued when the step after "generate" is over
\* (a model call that has returned or failed ends the step: from "generate"
\* the invocation goes on to the repair call, to its result or to its error,
\* from "repair" to its result, and never back)
boundedGeneration(s, primaryCalls) ==
    /\ reqs'[s].kind = "question" => reqs'[s].calls <= 2
    /\ (reqs[s].kind = "question" /\ reqs[s].pc = "generate" /\ reqs'[s] # reqs[s])
          => /\ reqs[s].calls = 0
             /\ reqs'[s].calls = primaryCalls
             /\ reqs'[s].pc \in {"repair", "save", "done"}
             /\ reqs'[s].pc = "done" => reqs'[s].status \in {500, 502}
             /\ reqs'[s].pc = "save" => reqs'[s].gen # None
             /\ reqs'[s].pc = "repair"
                   => /\ reqs[s].ctx.questionType = "sentence_order"
                      /\ ~IsPermutation(mergedOrderOf(reqs[s], reqs'[s].raw),
                                        DOMAIN reqs[s].ctx.options)
    /\ (reqs[s].pc = "repair" /\ reqs'[s] # reqs[s])
          => /\ reqs'[s].calls = 2
             /\ reqs'[s].pc = "save"
             /\ reqs'[s].gen # None

soMerged ==
    mergedSolution(so'.ctx,
                   normalizeExplanation(so'.raw, so'.ctx,
                                        precomputedReadingsOf(so'.ctx, so'.rc))
                       .sentence_order_solution)

\* the solution completeSentenceOrderSolution returns for SpecSO's request
\* when its repair call fails with f
soAfterFailure(f) ==
    completeSentenceOrderSolution(
        so'.ctx,
        normalizeExplanation(so'.raw, so'.ctx, precomputedReadingsOf(so'.ctx, so'.rc)),
        [error |-> f]).sentence_order_solution

\* C16 (the repair call fails soft): whichever way the repair call fails,
\* repairSentenceOrderSolutionWithModel returns no repair, the order
\* accumulated before the call is kept and padded to a permutation of the
\* option keys, the sentence is the one accumulated or the one rebuilt and
\* holds every fragment, and the request goes on to its result.
C16_RepairFailsSoft ==
    [][/\ (so.pc = "repair" /\ so' # so)
             => /\ so'.pc = "saved"
                /\ so'.saved # None
                /\ so'.saved.sentence_order_solution # None
       /\ so'.pc = "repair"
             => \A f \in CallFailures :
                   /\ repairSentenceOrderSolutionWithModel([error |-> f], so'.ctx, soMerged)
                          = None
                   /\ IsPrefix(soMerged.ordered_options, soAfterFailure(f).ordered_options)
                   /\ IsPermutation(soAfterFailure(f).ordered_options,
                                    DOMAIN so'.ctx.options)
                   /\ soAfterFailure(f).ordered_sentence_ja
                          \in {soMerged.ordered_sentence_ja,
                               buildSentenceOrderCompletionSentence(
                                   so'.ctx, soAfterFailure(f).ordered_options)}
                   /\ \A k \in DOMAIN so'.ctx.options :
                          Includes(soAfterFailure(f).ordered_sentence_ja,
                                   so'.ctx.options[k])]_vars

\* the primary reply ordered two of three fragments, 2 before 1; the repair
\* call failed, completeSentenceOrderSolution returned the order 2, 1, 3
\* and the explanation was saved
C16_Witness ==
    /\ so.pc = "saved"
    /\ so.raw # None
    /\ needsRepair(so.ctx, normalizeExplanation(so.raw, so.ctx,
                                                precomputedReadingsOf(so.ctx, so.rc)))
    /\ so.saved = hydrateQuestionExplanationWithReadingCache(
                      generatedExplanation(so.ctx, so.rc, so.raw, [error |-> "http"]),
                      so.rc)
    /\ generatedExplanation(so.ctx, so.rc, so.raw, [error |-> "http"])
           .sentence_order_solution.ordered_options = <<"2", "1", "3">>

\* C17 (failures of the question handler): without a credential, or when
\* the primary call ends with a non-success status, empty content or
\* unparseable JSON, the question request is answered with a 5xx status,
\* has written no explanation cache entry and the step leaves the cache as
\* it was; a question that does not exist is answered 404 before any quota
\* insert or model call.
C17_FailuresWriteNothing ==
    [][\A s \in Slots :
          /\ (/\ reqs[s].kind = "question" /\ reqs[s].pc = "generate"
              /\ reqs'[s].pc = "done")
                => /\ reqs'[s].status \in {500, 502}
                   /\ ~apiKey => reqs'[s].status = 500 /\ reqs'[s].calls = 0
                   /\ reqs'[s].explanation = None
                   /\ "save" \notin reqs'[s].ops
                   /\ explTable' = explTable
                   /\ saves' = saves
          /\ (/\ reqs[s].kind = "question" /\ reqs[s].pc = "load" /\ reqs[s].qidx # 0
              /\ reqs'[s] # reqs[s])
                => /\ reqs'[s].pc = "done"
                   /\ reqs'[s].status = 404
                   /\ reqs'[s].calls = 0
                   /\ reqs'[s].ops = {"load"}
                   /\ UNCHANGED <<store, wins, primary>>]_vars

\* a question request's primary call failed while the cache held an entry,
\* which is still there
C17_Witness ==
    \E s \in Slots :
        /\ reqs[s].kind = "question" /\ reqs[s].pc = "done"
        /\ reqs[s].status = 502 /\ reqs[s].calls = 1
        /\ Len(saves) = 1
        /\ explTable = {[key |-> saves[1].key, explanation |-> saves[1].explanation]}
        /\ saves[1].req < reqs[s].id

\* C18 (the star option is the answer key): for every sentence_order
\* question and every reply of the model, star_option of the solution that
\* is saved and served is the question's correct answer, never a value the
\* model proposed.
C18_StarIsCorrectAnswer ==
    /\ so.pc \in {"saved", "served"}
          => so.saved.sentence_order_solution.star_option = so.ctx.correctAnswer
    /\ so.pc = "served"
          => so.served.sentence_order_solution.star_option = so.ctx.correctAnswer

\* C19: in every normalized explanation each option_analysis entry has the
\* verdict "correct" exactly when its option key is the payload's correct
\* answer, and "wrong" otherwise, whatever verdicts the model returned.
C19_VerdictIsForced ==
    norm.pc = "done" =>
        \A i \in DOMAIN norm.out.option_analysis :
            LET e == norm.out.option_analysis[i]
            IN /\ e.verdict \in {"correct", "wrong"}
               /\ e.verdict = "correct" <=> e.option = norm.payload.correctAnswer

\* the indexes of the entries of a list that carry the option key k
entriesFor(list, k) == {i \in DOMAIN list : list[i].option = k}

\* the option keys for which the reply has an item in the array field name
givenKeys(raw, name) ==
    LET list == objectsOf(arrayField(raw, name))
    IN {normalizeOptionKey(list[i].option) : i \in 1..Len(list)}

\* C20: for every reply (no object, an empty object, an object with missing
\* fields or items that are no objects) normalizeExplanation returns an
\* explanation with all its fields in which every option key of the question
\* appears exactly once in option_analysis and exactly once in
\* options_with_reading; a key the reply left out gets a placeholder (empty
\* meaning, the verdict of the correct answer; the option's own text); and for
\* the options 1-4 with correct answer 2 and an empty reply option_analysis
\* has exactly 4 entries, entry 2 correct and the others wrong.
C20_NormalizeIsTotal ==
    norm.pc = "done" =>
        LET out == norm.out
            payload == norm.payload
        IN /\ DOMAIN out = {"question_ruby_html", "question_reading_hira",
                            "sentence_order_solution", "option_analysis",
                            "options_with_reading", "body"}
           /\ \A k \in DOMAIN payload.options :
                /\ Cardinality(entriesFor(out.option_analysis, k)) = 1
                /\ Cardinality(entriesFor(out.options_with_reading, k)) = 1
                /\ k \notin givenKeys(norm.raw, "option_analysis") =>
                     \E i \in entriesFor(out.option_analysis, k) :
                        /\ out.option_analysis[i].meaning_vi = <<>>
                        /\ out.option_analysis[i].verdict =
                               IF k = payload.correctAnswer THEN "correct" ELSE "wrong"
                /\ k \notin givenKeys(norm.raw, "options_with_reading") =>
                     \E i \in entriesFor(out.options_with_reading, k) :
                        out.options_with_reading[i].text_ja = payload.options[k]
           /\ (/\ DOMAIN payload.options = {"1", "2", "3", "4"}
               /\ payload.correctAnswer = "2"
               /\ norm.raw \in {None, <<>>})
              => /\ Len(out.option_analysis) = 4
                 /\ \A i \in 1..4 :
                       /\ out.option_analysis[i].option = SortKeys({"1", "2", "3", "4"})[i]
                       /\ out.option_analysis[i].verdict =
                              IF out.option_analysis[i].option = "2"
                              THEN "correct" ELSE "wrong"

\* an empty reply for the options 1-4 with correct answer 2 was normalized
C20_Witness ==
    /\ norm.pc = "done"
    /\ DOMAIN norm.payload.options = {"1", "2", "3", "4"}
    /\ norm.payload.correctAnswer = "2"
    /\ norm.raw = <<>>
    /\ Len(norm.out.option_analysis) = 4
    /\ Len(norm.out.options_with_reading) = 4

\* a question explanation keeps the solution exactly for sentence_order
solutionMatchesType(explanation, ctx) ==
    explanation.sentence_order_solution = None <=> ctx.questionType # "sentence_order"

\* the explanation with its solution taken out
withoutSolution(explanation) == [explanation EXCEPT !.sentence_order_solution = None]

\* C21: the explanation returned and the explanation cached have a null
\* sentence_order_solution for every question whose type is not
\* sentence_order, even when the model returned a solution object, and a
\* non-null one for every sentence_order question; the repair step and the
\* reading-cache hydration leave a null solution null.
C21_SolutionOnlyForSentenceOrder ==
    /\ \A s \in Slots :
         (reqs[s].pc = "done" /\ reqs[s].kind = "question" /\ reqs[s].status = 200)
            => solutionMatchesType(reqs[s].explanation, reqs[s].ctx)
    /\ \A i \in 1..Len(saves) :
         saves[i].kind = "question" =>
            /\ solutionMatchesType(saves[i].explanation, saves[i].ctx)
            /\ \E row \in explTable : row.key = saves[i].key
            /\ hydrateQuestionExplanationWithReadingCache(
                   withoutSolution(saves[i].explanation),
                   buildQuestionReadingCache(saves[i].ctx.questionText,
                                             saves[i].ctx.options)
               ).sentence_order_solution = None
            /\ \A reply \in RepairReplies :
                 completeSentenceOrderSolution(
                     saves[i].ctx, withoutSolution(saves[i].explanation), reply
                 ).sentence_order_solution = None
    /\ \A row \in explTable :
         row.key[1] = "question" =>
            \E i \in 1..Len(saves) :
               /\ saves[i].key = row.key
               /\ solutionMatchesType(row.explanation, saves[i].ctx)

\* the reply with a solution object was normalized for the grammar question,
\* saved and answered; a sentence_order explanation was saved too
C21_Witness ==
    /\ \E s \in Slots :
         /\ reqs[s].pc = "done" /\ reqs[s].kind = "question" /\ reqs[s].status = 200
         /\ reqs[s].ctx.questionType = "grammar_choice"
         /\ reqs[s].explanation.body = "B"
         /\ reqs[s].explanation.sentence_order_solution = None
    /\ \E i \in 1..Len(saves) :
         /\ saves[i].kind = "question"
         /\ saves[i].ctx.questionType = "sentence_order"
         /\ saves[i].explanation.sentence_order_solution # None

\* a request that missed the cache on its lookup and went on to the primary
\* model call
missedAndCalled(r) ==
    /\ r.kind = "question" /\ ~r.force
    /\ "lookup" \in r.ops /\ "model" \in r.ops
    /\ \E c \in primary : c.req = r.id

\* the two requests in the slots are for one explanation key, come from
\* different callers, both missed the cache and both made the primary call
bothMissedAndCalled ==
    /\ missedAndCalled(reqs["r1"]) /\ missedAndCalled(reqs["r2"])
    /\ reqs["r1"].user # reqs["r2"].user
    /\ explKey(reqs["r1"]) = explKey(reqs["r2"])

\* both requests were answered with what they generated
bothAnswered ==
    \A s \in Slots :
        reqs[s].pc = "done" /\ reqs[s].status = 200 /\ reqs[s].source = "openai"

\* C22: two concurrent requests for the same question that was never
\* explained before, from different callers, can both miss the cache and both
\* make the primary model call; such a run ends with exactly one cache entry
\* for the key and with no user holding more than one quota row for it.
C22_DoubleGenerationEndsClean ==
    (bothMissedAndCalled /\ bothAnswered) =>
        /\ Cardinality({row \in explTable : row.key = explKey(reqs["r1"])}) = 1
        /\ \A k \in DOMAIN quotaLog : quotaLog[k] = 1
        /\ \A s \in Slots :
             ~isAdmin(reqs[s].user) => quotaKey(reqs[s]) \in DOMAIN quotaLog

\* the interleaving itself: nothing was cached for the key before, both
\* requests missed, both called the model, both saved
C22_Witness ==
    /\ bothMissedAndCalled
    /\ bothAnswered
    /\ Len(saves) = 2
    /\ saves[1].key = saves[2].key
    /\ saves[1].explanation # saves[2].explanation
    /\ Cardinality(explTable) = 1

\* the solution that waits for the repair call, with the order accumulated
\* from the answer key, the model's proposal and the sentence inference
beforeRepair ==
    mergedSolution(
        so.ctx,
        normalizeExplanation(so.raw, so.ctx, precomputedReadingsOf(so.ctx, so.rc))
            .sentence_order_solution)

\* ordered_options of the repair reply, filtered to the option keys and
\* without duplicates
repairOrder(reply) ==
    IF isFailure(reply) THEN <<>>
    ELSE uniqueOptions([i \in 1..Len(reply.ordered_options) |->
                           normalizeOptionKey(reply.ordered_options[i])],
                       SortKeys(DOMAIN so.ctx.options))

\* the order completeSentenceOrderSolution ends with when the repair call
\* returns reply
afterRepair(reply) ==
    generatedExplanation(so.ctx, so.rc, so.raw, reply)
        .sentence_order_solution.ordered_options

\* C23: the repair model's output replaces the current solution only if its
\* ordered_options, filtered to valid keys and without duplicates, is a
\* complete permutation of the option keys; otherwise the order accumulated
\* before the repair call is kept as the prefix the padding completes.
C23_RepairOnlyIfComplete ==
    so.pc = "repair" =>
        \A reply \in SORepairReplies :
            IF hasCompleteOrder(repairOrder(reply), SortKeys(DOMAIN so.ctx.options))
            THEN afterRepair(reply) = repairOrder(reply)
            ELSE /\ IsPrefix(beforeRepair.ordered_options, afterRepair(reply))
                 /\ afterRepair(reply) =
                        padOrder(beforeRepair.ordered_options,
                                 SortKeys(DOMAIN so.ctx.options))

\* the answer key of the question in hand gives a complete order
hasExpectedOrder ==
    hasCompleteOrder(so.ctx.sentenceOrderExpectedOrder, SortKeys(DOMAIN so.ctx.options))

\* C24: when the exam's answer-key text yields a complete, distinct
\* permutation of the option keys, the ordered_options
\* completeSentenceOrderSolution ends with is that permutation whatever order
\* and sentence the model proposed, and no repair call is issued.
C24_AnswerKeyOrderWins ==
    /\ (so.pc = "generate" /\ hasExpectedOrder) =>
          \A raw \in SOReplies :
             /\ ~needsRepair(so.ctx,
                             normalizeExplanation(raw, so.ctx,
                                                  precomputedReadingsOf(so.ctx, so.rc)))
             /\ \A reply \in SORepairReplies :
                   generatedExplanation(so.ctx, so.rc, raw, reply)
                       .sentence_order_solution.ordered_options
                     = so.ctx.sentenceOrderExpectedOrder
    /\ so.pc = "repair" => ~hasExpectedOrder
    /\ (so.pc = "saved" /\ hasExpectedOrder) =>
          IsPrefix(so.ctx.sentenceOrderExpectedOrder,
                   so.saved.sentence_order_solution.ordered_options)

\* the answer key says 2-4-1-3, the model proposed 3, 2, 1, 4 with a sentence
\* in that order, and the generation ended with 2, 4, 1, 3
C24_Witness ==
    /\ so.pc = "saved"
    /\ so.ctx.sentenceOrderExpectedOrder = <<"2", "4", "1", "3">>
    /\ so.raw # None
    /\ so.raw.sentence_order_solution.ordered_options = <<"3", "2", "1", "4">>
    /\ generatedExplanation(so.ctx, so.rc, so.raw, Error)
           .sentence_order_solution.ordered_options = <<"2", "4", "1", "3">>

\* the text t, whitespace apart, is a number of 1-3 digits, after at most
\* one character of opens, before at most one closing bracket and at most
\* one punctuation mark; with needBrackets both brackets are there
markerShape(t, opens, needBrackets) ==
    LET n == SelectSeq(t, LAMBDA ch : ch \notin WsChars)
    IN \E o \in 0..1, d \in 1..3, c \in 0..1, p \in 0..1 :
          /\ Len(n) = o + d + c + p
          /\ o = 1 => n[1] \in opens
          /\ \A i \in (o + 1)..(o + d) : n[i] \in DigitChars
          /\ c = 1 => n[o + d + 1] \in {")", "]"}
          /\ p = 1 => n[Len(n)] \in {".", "|", ";", ","}
          /\ needBrackets => (o = 1 /\ c = 1)

\* the marker of the question in hand in its half-width and full-width form
markerForms ==
    LET number == extractDigits(cloze.ctx.rawQuestionText)
    IN << <<"(">> \o number \o <<")">>, <<"[">> \o number \o <<"]">> >>

\* where the passage first holds one of the forms (from 0), -1 when nowhere
markerAt ==
    LET at == {IndexOf(cloze.ctx.passageText, markerForms[i]) : i \in 1..2} \ {-1}
    IN IF at = {} THEN -1 ELSE CHOOSE i \in at : \A j \in at : i <= j

\* the passage from just after the nearest character of ends before the
\* marker up to and including the nearest one after it
sentenceAround(ends) ==
    LET t == cloze.ctx.passageText
        from == markerAt
        to == markerAt + Len(markerForms[1])
        s == CHOOSE i \in 0..from :
                /\ i = 0 \/ t[i] \in ends
                /\ \A j \in (i + 1)..from : t[j] \notin ends
        e == CHOOSE i \in to..Len(t) :
                /\ i = Len(t) \/ (i > to /\ t[i] \in ends)
                /\ \A j \in (to + 1)..(i - 1) : t[j] \notin ends
    IN SubSeq(t, s + 1, e)

\* sentence with the option text in place of the first occurrence of form
answeredWith(sentence, form) ==
    LET at == IndexOf(sentence, form)
    IN SubSeq(sentence, 1, at) \o cloze.ctx.options[cloze.q.answer]
       \o Drop(sentence, at + Len(form))

\* the form of the marker that occurs first in the sentence
firstFormIn(sentence) ==
    IF IndexOf(sentence, markerForms[2]) >= 0
       /\ (IndexOf(sentence, markerForms[1]) < 0
           \/ IndexOf(sentence, markerForms[2]) < IndexOf(sentence, markerForms[1]))
    THEN markerForms[2] ELSE markerForms[1]

\* a question that is no cloze question keeps its text as it is
keptVerbatim ==
    /\ cloze.ctx.questionWithBlank = cloze.ctx.rawQuestionText
    /\ cloze.ctx.questionText = cloze.ctx.rawQuestionText
    /\ cloze.ctx.questionWithAnswer = <<>>

starInInput ==
    \/ StarChar \in Range(meta.input.sectionTitle)
    \/ StarChar \in Range(meta.input.questionText)

\* the part is the listening part or the title holds a listening word
listeningInput ==
    \/ meta.input.part = 3
    \/ Range(meta.input.sectionTitle) \cap {"choukai", "kiku", "onsei", "kaiwa"} # {}

\* the type the problem-group table of N2 gives the number n, "" for none
tableType(n) ==
    IF n = 1 THEN "vocab_kanji_reading"
    ELSE IF n = 2 THEN "vocab_kanji_writing"
    ELSE IF n \in 3..6 THEN "vocab_context"
    ELSE IF n = 7 THEN "grammar_choice"
    ELSE IF n = 8 THEN "sentence_order"
    ELSE IF n = 9 THEN "reading_cloze"
    ELSE IF n \in 10..14 THEN "reading_content"
    ELSE ""

\* C26: the classifier applies its rules in strict priority: sentence_order
\* whenever the section title or the question text holds the star, for every
\* level, part and other input; otherwise listening when the part is the
\* listening part or the title holds a listening word; only otherwise the
\* problem-group table, which has entries for N2 only, and the heuristic
\* cascade when the table gives no type.
C26_ClassifierPriority ==
    meta.pc = "done" =>
        LET heuristic == inferByHeuristic(
                             meta.input,
                             normalizeWhitespaceLine(meta.input.sectionTitle),
                             normalizeWhitespaceLine(meta.input.questionText))
            fromTable == IF meta.input.level \in {"N2", "n2"}
                         THEN tableType(meta.out.mondaiNumber) ELSE ""
        IN /\ starInInput => meta.out.questionType = "sentence_order"
           /\ (~starInInput /\ listeningInput) => meta.out.questionType = "listening"
           /\ (~starInInput /\ ~listeningInput) =>
                 meta.out.questionType = IF fromTable # "" THEN fromTable ELSE heuristic

\* a cloze question with a passage in the listening part of level N3, under
\* a section title that holds the star, was classified sentence_order
C26_Witness ==
    /\ meta.pc = "done"
    /\ meta.input.part = 3
    /\ meta.input.level = "N3"
    /\ meta.input.sectionTitle = <<"x", " ", StarChar>>
    /\ meta.input.hasPassage /\ meta.input.isClozeQuestion
    /\ meta.out.questionType = "sentence_order"

\* the explanation the handler returns for the normalized reply
returnedExplanation == hydrateQuestionExplanationWithReadingCache(norm.out, norm.rc)

\* C27: option_analysis and options_with_reading of a returned question
\* explanation hold no option key outside the question's option map, and
\* each has as many entries as the question has options.
C27_OnlyQuestionOptions ==
    norm.pc = "done" =>
        LET keys == DOMAIN norm.payload.options
            out == returnedExplanation
        IN /\ \A i \in DOMAIN out.option_analysis : out.option_analysis[i].option \in keys
           /\ \A i \in DOMAIN out.options_with_reading :
                 out.options_with_reading[i].option \in keys
           /\ Len(out.option_analysis) = Cardinality(keys)
           /\ Len(out.options_with_reading) = Cardinality(keys)

\* C28: hydrateQuestionExplanationWithReadingCache is idempotent for a fixed
\* reading cache: what a cache hit serves, the saved explanation hydrated
\* once more, is the saved explanation, option texts and ordered_options
\* included.
C28_HydrationIsIdempotent ==
    so.pc = "served" => so.served = so.saved

\* the valid indexes a questionIndexes list holds, as a set
validIndexes(raw) ==
    {n \in 0..2 : \E i \in 1..Len(raw) : NumberOf(raw[i]) = [int |-> n]}

\* the sets of valid indexes that user asked for, in requests that got as
\* far as the group hash
askedBy(user) == {validIndexes(e.raw) : e \in {x \in pg.log : x.user = user}}

\* C29: passage requests whose questionIndexes hold the same set of valid
\* indexes, in any order and with any duplicates, compute the same group
\* hash; so they share one cache entry, and each user has one quota row for
\* the group.
C29_SameIndexesSameGroup ==
    /\ \A e1, e2 \in pg.log :
          validIndexes(e1.raw) = validIndexes(e2.raw) => e1.hash = e2.hash
    /\ \A r1, r2 \in pg.table : r1.key = r2.key => r1 = r2
    /\ Cardinality(pg.table) <= Cardinality({validIndexes(e.raw) : e \in pg.log})
    /\ \A k \in DOMAIN pg.quota : pg.quota[k] = 1
    /\ \A user \in {"u1", "u2"} :
          Cardinality({k \in DOMAIN pg.quota : k[1] = user}) <= Cardinality(askedBy(user))

\* a user asked for the questions 0 and 1 twice, the second time in another
\* order and with duplicates, and was answered from the one cache entry
C29_Witness ==
    /\ pg.req.pc = "done"
    /\ pg.req.source = "cache"
    /\ pg.req.raw = <<"s1", "0", "1", "-1">>
    /\ \E e \in pg.log :
          /\ e.raw = <<"0", "1">>
          /\ e.user = pg.req.user
          /\ e.hash = pg.req.hash
    /\ Cardinality(pg.table) = 1
    /\ DOMAIN pg.quota = {<<pg.req.user, passageKey(pg.req.hash)>>}

\* some option_analysis entry of the explanation lacks a meaning or a reason
lacksContent(explanation) ==
    \E i \in DOMAIN explanation.questions :
       \E k \in DOMAIN explanation.questions[i].option_analysis :
          LET e == explanation.questions[i].option_analysis[k]
          IN Trim(e.meaning_vi) = <<>> \/ Trim(e.reason_vi) = <<>>

\* every option_analysis entry of every question has a reason
everyReasonGiven(explanation) ==
    \A i \in DOMAIN explanation.questions :
       \A k \in DOMAIN explanation.questions[i].option_analysis :
          explanation.questions[i].option_analysis[k].reason_vi # <<>>

\* C30: generatePassageExplanation makes at most one fill call after the
\* primary call, and only when some option_analysis entry lacks a meaning or
\* a reason; whatever the fill call returns the request succeeds, and after a
\* fill step every option_analysis entry of every question has a reason.
C30_FillAtMostOnceAndSoft ==
    /\ pg.req.calls <= 2
    /\ pg.req.pc = "fill" => pg.req.calls = 1 /\ lacksContent(pg.req.normalized)
    /\ (pg.req.pc = "done" /\ pg.req.calls = 1 /\ pg.req.status = 200
           /\ pg.req.source = "openai")
          => ~lacksContent(pg.req.normalized)
    /\ pg.req.calls = 2
          => /\ pg.req.pc = "done"
             /\ pg.req.status = 200
             /\ lacksContent(pg.req.normalized)
             /\ everyReasonGiven(pg.req.explanation)
             /\ \E row \in pg.table : row.explanation = pg.req.explanation

\* the fill call came back with content that does not parse; the request was
\* answered with fallback reasons
C30_Witness ==
    /\ pg.req.pc = "done"
    /\ pg.req.calls = 2
    /\ pg.req.outcome = [error |-> "badjson"]
    /\ pg.req.status = 200
    /\ ~everyReasonGiven(pg.req.normalized)
    /\ everyReasonGiven(pg.req.explanation)

====
